---- MODULE Spec2Model ----
(***************************************************************************)
(* Model of the cardo card-generation pipeline: the text-generation call,  *)
(* response parsing, consolidation into phrases and individual kanji,      *)
(* the kanji-meaning lookup, and persistence through the Prisma store.     *)
(*                                                                         *)
(* Strings that the code inspects character by character (kanji, kanji     *)
(* breakdown) are sequences of UTF-16 code units; descriptive fields that  *)
(* are only copied and tested for emptiness are TLA+ strings.              *)
(*                                                                         *)
(* Spec is one run of the pipeline over parsed responses.  SpecText        *)
(* applies cleanStreamingResponse and extractKanjiFromBreakdown to texts,  *)
(* character by character.                                                 *)
(***************************************************************************)
EXTENDS Integers, Sequences, FiniteSets, TLC

\* ------------------------------------------------------------------ bounds
\* longest list of records in one text-generation response / rawLlmData
MaxRecords == 3
\* longest list of entries in one kanji-meaning response
MaxLlmEntries == 2
\* longest text carried by a streamed response, and longest unchunked text
MaxTextLen == 3
\* longest kanjiBreakdown
MaxBreakdownLen == 3
\* longest text before and after a "kata only" marker
MaxAffixLen == 1
\* longest list of rows handed to deduplicateByKey
MaxItems == 3
\* longest field of an exported row
MaxFieldLen == 1
\* operations on the store, one after the other
MaxRuns == 3
\* records of a response in a series of runs
MaxRunRecords == 2

\* ------------------------------------------------------- string primitives
\* String.prototype.toLowerCase on one code unit (ASCII letters)
ToLowerCase(c) == IF c \in 65..90 THEN c + 32 ELSE c

\* toLowerCase left out
LowerCased_Identity(s) == s

LowerCased(s) == [i \in 1..Len(s) |-> ToLowerCase(s[i])]

\* String.prototype.includes
Includes(s, sub) ==
  \E i \in 1..(Len(s) - Len(sub) + 1) : SubSeq(s, i, i + Len(sub) - 1) = sub

\* white space removed by String.prototype.trim
IsWhiteSpace(c) == c \in {9, 10, 11, 12, 13, 32, 160, 12288}

RECURSIVE TrimStart(_)
TrimStart(s) ==
  IF s # <<>> /\ IsWhiteSpace(Head(s)) THEN TrimStart(Tail(s)) ELSE s

RECURSIVE TrimEnd(_)
TrimEnd(s) ==
  IF s # <<>> /\ IsWhiteSpace(s[Len(s)])
  THEN TrimEnd(SubSeq(s, 1, Len(s) - 1)) ELSE s

Trim(s) == TrimEnd(TrimStart(s))

\* breakdown.split(/[/,;]/): the delimiter class is '/', ',' and ';'
IsDelimiter(c) == c \in {47, 44, 59}

RECURSIVE SplitFrom(_, _, _)
SplitFrom(s, cur, parts) ==
  IF s = <<>> THEN Append(parts, cur)
  ELSE IF IsDelimiter(Head(s)) THEN SplitFrom(Tail(s), <<>>, Append(parts, cur))
  ELSE SplitFrom(Tail(s), Append(cur, Head(s)), parts)

Split(s) == SplitFrom(s, <<>>, <<>>)

\* the character class [一-龯] of the match: U+4E00 .. U+9FAF, per code unit
InMatchClass(c) == c >= 19968 /\ c <= 40879

\* part.match(/^([一-龯]+)/): the leading run, <<>> when there is no match
RECURSIVE LeadingRun(_)
LeadingRun(s) ==
  IF s # <<>> /\ InMatchClass(Head(s))
  THEN <<Head(s)>> \o LeadingRun(Tail(s)) ELSE <<>>

\* [...new Set(list)]: duplicates collapsed to the first occurrence
RECURSIVE Unique(_)
Unique(list) ==
  IF list = <<>> THEN <<>>
  ELSE LET rest == Unique(SubSeq(list, 1, Len(list) - 1))
           last == list[Len(list)]
       IN IF \E i \in 1..Len(rest) : rest[i] = last THEN rest
          ELSE Append(rest, last)

Contains(list, x) == \E i \in 1..Len(list) : list[i] = x

\* ------------------------------------------------------------ consolidation
isKanji(code) ==
  \/ (code >= 19968 /\ code <= 40879)
  \/ (code >= 13312 /\ code <= 19903)
  \/ (code >= 131072 /\ code <= 173791)
  \/ (code >= 173824 /\ code <= 177983)
  \/ (code >= 177984 /\ code <= 178207)
  \/ (code >= 178208 /\ code <= 183983)

\* the characters one part of the breakdown contributes, as one-unit strings
RECURSIVE KanjiOfRun(_)
KanjiOfRun(run) ==
  IF run = <<>> THEN <<>>
  ELSE (IF isKanji(Head(run)) THEN << <<Head(run)>> >> ELSE <<>>)
       \o KanjiOfRun(Tail(run))

RECURSIVE KanjiOfParts(_)
KanjiOfParts(parts) ==
  IF parts = <<>> THEN <<>>
  ELSE KanjiOfRun(LeadingRun(Trim(Head(parts)))) \o KanjiOfParts(Tail(parts))

KataOnly == <<107, 97, 116, 97, 32, 111, 110, 108, 121>>

extractKanjiFromBreakdown(breakdown) ==
  IF Includes(LowerCased(breakdown), KataOnly) THEN <<>>
  ELSE Unique(KanjiOfParts(Split(breakdown)))

PhraseOf(item) ==
  [englishMeaning |-> item.englishMeaning, kanji |-> item.kanji,
   phoneticKana |-> item.phoneticKana, phoneticRomaji |-> item.phoneticRomaji,
   kanjiBreakdown |-> item.kanjiBreakdown]

DataOf(item) ==
  [meaning |-> item.englishMeaning, kana |-> item.phoneticKana,
   romaji |-> item.phoneticRomaji]

\* Map.set
MapSet(map, key, val) ==
  [k \in DOMAIN map \cup {key} |-> IF k = key THEN val ELSE map[k]]

\* Set.add for each element of list, on an insertion-ordered set
\* Set.add that keeps what it already holds
AddAll_Append(set, list) == set \o list

AddAll(set, list) == Unique(set \o list)

EmptyMap == [k \in {} |-> 0]

\* ClassifyItem with the phrase test written as "length > 2"
ClassifyItem_StrictlyLonger(acc, item) ==
  IF Len(item.kanji) > 2
  THEN [acc EXCEPT !.phrases = Append(@, PhraseOf(item)),
                   !.kanjiSet = AddAll(@, extractKanjiFromBreakdown(item.kanjiBreakdown))]
  ELSE IF Len(item.kanji) >= 1
  THEN [acc EXCEPT !.kanjiSet = AddAll(@, <<item.kanji>>),
                   !.kanjiData = MapSet(@, item.kanji, DataOf(item))]
  ELSE acc

\* one iteration of the loop of step 1 and step 2
ClassifyItem(acc, item) ==
  IF Len(item.kanji) >= 2
  THEN [acc EXCEPT !.phrases = Append(@, PhraseOf(item)),
                   !.kanjiSet = AddAll(@, extractKanjiFromBreakdown(item.kanjiBreakdown))]
  ELSE IF Len(item.kanji) = 1
  THEN [acc EXCEPT !.kanjiSet = AddAll(@, <<item.kanji>>),
                   !.kanjiData = MapSet(@, item.kanji, DataOf(item))]
  ELSE acc

RECURSIVE Classify(_)
Classify(rawData) ==
  IF rawData = <<>>
  THEN [phrases |-> <<>>, kanjiSet |-> <<>>, kanjiData |-> EmptyMap]
  ELSE ClassifyItem(Classify(SubSeq(rawData, 1, Len(rawData) - 1)),
                    rawData[Len(rawData)])

\* NewKanji without the filter against the existing kanji
NewKanji_Unfiltered(kanjiSet, existingKanji) == kanjiSet

\* [...kanjiSet].filter((k) => !existingKanji.includes(k))
NewKanji(kanjiSet, existingKanji) ==
  SelectSeq(kanjiSet, LAMBDA k : ~Contains(existingKanji, k))

\* KanjiNeedingLookup that asks for every new kanji
KanjiNeedingLookup_AllNew(newKanji, kanjiData) == newKanji

\* step 4
KanjiNeedingLookup(newKanji, kanjiData) ==
  SelectSeq(newKanji, LAMBDA k : k \notin DOMAIN kanjiData)

\* step 5, the loop over the entries the service returned
RECURSIVE AddLlmData(_, _)
AddLlmData(kanjiData, llmKanjiData) ==
  IF llmKanjiData = <<>> THEN kanjiData
  ELSE AddLlmData(MapSet(kanjiData, Head(llmKanjiData).kanji,
                         DataOf(Head(llmKanjiData))),
                  Tail(llmKanjiData))

\* CatchLookup whose catch block throws the collected data away
CatchLookup_Reset(kanjiData, got) ==
  IF got.ok THEN AddLlmData(kanjiData, got.data) ELSE EmptyMap

\* step 5, the try/catch around the call: a failure leaves the map as it was
CatchLookup(kanjiData, got) ==
  IF got.ok THEN AddLlmData(kanjiData, got.data) ELSE kanjiData

\* BuildKanji that emits an empty record for a kanji without data
RECURSIVE BuildKanji_Blank(_, _)
BuildKanji_Blank(newKanji, kanjiData) ==
  IF newKanji = <<>> THEN <<>>
  ELSE << [englishMeaning |-> IF Head(newKanji) \in DOMAIN kanjiData
                              THEN kanjiData[Head(newKanji)].meaning ELSE "",
           kanji |-> Head(newKanji),
           phoneticKana |-> IF Head(newKanji) \in DOMAIN kanjiData
                            THEN kanjiData[Head(newKanji)].kana ELSE "",
           phoneticRomaji |-> IF Head(newKanji) \in DOMAIN kanjiData
                              THEN kanjiData[Head(newKanji)].romaji ELSE ""] >>
       \o BuildKanji_Blank(Tail(newKanji), kanjiData)

\* step 6 over every key of kanjiData instead of newKanji
RECURSIVE EntriesOf(_, _)
EntriesOf(keys, kanjiData) ==
  IF keys = {} THEN <<>>
  ELSE LET k == CHOOSE x \in keys : TRUE
       IN << [englishMeaning |-> kanjiData[k].meaning, kanji |-> k,
              phoneticKana |-> kanjiData[k].kana,
              phoneticRomaji |-> kanjiData[k].romaji] >>
            \o EntriesOf(keys \ {k}, kanjiData)

BuildKanji_AllData(newKanji, kanjiData) == EntriesOf(DOMAIN kanjiData, kanjiData)

\* step 6
RECURSIVE BuildKanji(_, _)
BuildKanji(newKanji, kanjiData) ==
  IF newKanji = <<>> THEN <<>>
  ELSE (IF Head(newKanji) \in DOMAIN kanjiData
        THEN << [englishMeaning |-> kanjiData[Head(newKanji)].meaning,
                 kanji |-> Head(newKanji),
                 phoneticKana |-> kanjiData[Head(newKanji)].kana,
                 phoneticRomaji |-> kanjiData[Head(newKanji)].romaji] >>
        ELSE <<>>)
       \o BuildKanji(Tail(newKanji), kanjiData)

\* -------------------------------------------------------------- LLM service
\* ---- cleanStreamingResponse; positions count from 0 as in the code
\* the chunk prefix 0:"
ChunkPrefix == <<48, 58, 34>>

\* String.prototype.indexOf(sub, from): -1 when there is no occurrence
RECURSIVE IndexOf(_, _, _)
IndexOf(s, sub, from) ==
  IF from + Len(sub) > Len(s) THEN -1
  ELSE IF SubSeq(s, from + 1, from + Len(sub)) = sub THEN from
  ELSE IndexOf(s, sub, from + 1)

\* String.prototype.slice(from, to)
Slice(s, from, to) == SubSeq(s, from + 1, to)

\* String.prototype.replace(/pattern/g, by) for a literal pattern
RECURSIVE ReplaceAll(_, _, _)
ReplaceAll(s, pattern, by) ==
  IF Len(s) < Len(pattern) THEN s
  ELSE IF SubSeq(s, 1, Len(pattern)) = pattern
  THEN by \o ReplaceAll(SubSeq(s, Len(pattern) + 1, Len(s)), pattern, by)
  ELSE <<Head(s)>> \o ReplaceAll(Tail(s), pattern, by)

\* chunks.join('')
RECURSIVE Join(_)
Join(chunks) ==
  IF chunks = <<>> THEN <<>> ELSE Head(chunks) \o Join(Tail(chunks))

\* the inner loop: the value of end when the search for the closing quote
\* stops; a quote that follows a backslash is stepped over
RECURSIVE FindEnd(_, _)
FindEnd(response, end) ==
  IF end < Len(response)
  THEN LET nextQuote == IndexOf(response, <<34>>, end)
       IN IF nextQuote = -1 THEN end
          ELSE IF response[nextQuote] = 92 THEN FindEnd(response, nextQuote + 1)
          ELSE nextQuote
  ELSE end

\* the outer loop: the chunks pushed from position pos on
RECURSIVE ChunkLoop(_, _, _)
ChunkLoop(response, pos, chunks) ==
  IF pos < Len(response)
  THEN LET start == IndexOf(response, ChunkPrefix, pos)
       IN IF start = -1 THEN chunks
          ELSE LET contentStart == start + 3
                   end == FindEnd(response, contentStart)
               IN IF end >= Len(response) THEN chunks
                  ELSE ChunkLoop(response, end + 1,
                         Append(chunks,
                                ReplaceAll(Slice(response, contentStart, end),
                                           <<92, 34>>, <<34>>)))
  ELSE chunks

\* the decoding of a response that holds a chunk prefix
DecodeChunks(response) ==
  ReplaceAll(ReplaceAll(Join(ChunkLoop(response, 0, <<>>)),
                        <<92, 110>>, <<10>>),
             <<92, 116>>, <<9>>)

\* cleanStreamingResponse that decodes whatever the input holds
cleanStreamingResponse_AlwaysDecode(response) == DecodeChunks(response)

cleanStreamingResponse(response) ==
  IF ~Includes(response, ChunkPrefix) THEN response
  ELSE DecodeChunks(response)

\* the keys of a phrase element
PhraseFields ==
  {"englishMeaning", "kanji", "phoneticKana", "phoneticRomaji", "kanjiBreakdown"}

\* phraseSchema with a kanji of two characters or more
phraseSchema_MinTwo(e) ==
  /\ PhraseFields \subseteq DOMAIN e
  /\ e.englishMeaning # ""
  /\ Len(e.kanji) >= 2
  /\ e.phoneticKana # ""
  /\ e.phoneticRomaji # ""
  /\ Len(e.kanjiBreakdown) >= 1

\* phraseSchema: every field is a required z.string().min(1)
phraseSchema(e) ==
  /\ PhraseFields \subseteq DOMAIN e
  /\ e.englishMeaning # ""
  /\ Len(e.kanji) >= 1
  /\ e.phoneticKana # ""
  /\ e.phoneticRomaji # ""
  /\ Len(e.kanjiBreakdown) >= 1

\* kanjiSchema: kanji is z.string().length(1), the others z.string().min(1)
kanjiSchema(e) ==
  /\ e.englishMeaning # ""
  /\ Len(e.kanji) = 1
  /\ e.phoneticKana # ""
  /\ e.phoneticRomaji # ""

SchemaAccepts(dataType, e) ==
  IF dataType = "phrases" THEN phraseSchema(e) ELSE kanjiSchema(e)

\* A chat completion either rejects or yields a text.  Of a text the parser
\* observes whether /\[[\s\S]*\]/ matches, whether JSON.parse accepts the
\* matched span, and the elements of the parsed array; rows are the data rows
\* of a pipe-delimited table in the text, which the parser does not look at.
Rejected == [kind |-> "reject", array |-> "none", elements |-> <<>>, rows |-> <<>>]
NoArrayText == [kind |-> "text", array |-> "none", elements |-> <<>>, rows |-> <<>>]
BadJsonText == [kind |-> "text", array |-> "invalid", elements |-> <<>>, rows |-> <<>>]
ArrayText(elements) ==
  [kind |-> "text", array |-> "json", elements |-> elements, rows |-> <<>>]
TableText(rows) ==
  [kind |-> "text", array |-> "none", elements |-> <<>>, rows |-> rows]

\* An Error: its message, the values interpolated into the message (the
\* paths of the Zod issues, the response texts), and nothing else.
NoError == [message |-> "", issues |-> <<>>, texts |-> <<>>]

\* error.issues: the indices of the elements the schema rejects
RECURSIVE IssuesFrom(_, _, _)
IssuesFrom(dataType, elements, i) ==
  IF i > Len(elements) THEN <<>>
  ELSE (IF SchemaAccepts(dataType, elements[i]) THEN <<>> ELSE <<i>>)
         \o IssuesFrom(dataType, elements, i + 1)

\* parseJsonResponse that answers an empty list when it finds no array
parseJsonResponse_Lenient(response, dataType) ==
  IF response.array = "none" \/ response.array = "invalid"
  THEN [ok |-> TRUE, data |-> <<>>, error |-> NoError, log |-> <<>>]
  ELSE LET issues == IssuesFrom(dataType, response.elements, 1)
       IN IF issues # <<>>
          THEN [ok |-> FALSE, data |-> <<>>,
                error |-> [message |-> "Invalid data structure",
                           issues |-> issues, texts |-> <<>>],
                log |-> << [msg |-> "Invalid data structure from LLM",
                            issues |-> issues,
                            cleanedResponse |-> <<response>>] >>]
          ELSE [ok |-> TRUE, data |-> response.elements, error |-> NoError,
                log |-> <<>>]

\* parseJsonResponse that logs a validation failure without the response
parseJsonResponse_Unlogged(response, dataType) ==
  IF response.array = "none" \/ response.array = "invalid"
  THEN [ok |-> FALSE, data |-> <<>>,
        error |-> [message |-> "Failed to parse JSON",
                   issues |-> <<>>, texts |-> <<>>],
        log |-> << [msg |-> "Failed to parse JSON from LLM response",
                    issues |-> <<>>, cleanedResponse |-> <<response>>] >>]
  ELSE LET issues == IssuesFrom(dataType, response.elements, 1)
       IN IF issues # <<>>
          THEN [ok |-> FALSE, data |-> <<>>,
                error |-> [message |-> "Invalid data structure",
                           issues |-> issues, texts |-> <<>>],
                log |-> << [msg |-> "Invalid data structure from LLM",
                            issues |-> issues, cleanedResponse |-> <<>>] >>]
          ELSE [ok |-> TRUE, data |-> response.elements, error |-> NoError,
                log |-> <<>>]

\* [ok, data]: the returned array; [error, log]: the Error thrown and the
\* log.error entries written on the way
parseJsonResponse(response, dataType) ==
  IF response.array = "none" \/ response.array = "invalid"
  THEN [ok |-> FALSE, data |-> <<>>,
        error |-> [message |-> "Failed to parse JSON",
                   issues |-> <<>>, texts |-> <<>>],
        log |-> << [msg |-> "Failed to parse JSON from LLM response",
                    issues |-> <<>>, cleanedResponse |-> <<response>>] >>]
  ELSE LET issues == IssuesFrom(dataType, response.elements, 1)
       IN IF issues # <<>>
          THEN [ok |-> FALSE, data |-> <<>>,
                error |-> [message |-> "Invalid data structure",
                           issues |-> issues, texts |-> <<>>],
                log |-> << [msg |-> "Invalid data structure from LLM",
                            issues |-> issues,
                            cleanedResponse |-> <<response>>] >>]
          ELSE [ok |-> TRUE, data |-> response.elements, error |-> NoError,
                log |-> <<>>]

\* the catch block: log.error({ error }, ...) and an Error whose message
\* embeds error.message
Rethrown(message, inner, log) ==
  [ok |-> FALSE, data |-> <<>>,
   error |-> [message |-> message, issues |-> inner.issues,
              texts |-> inner.texts],
   log |-> Append(log, [msg |-> message, issues |-> inner.issues,
                        cleanedResponse |-> inner.texts])]

generatePhrases(response) ==
  IF response.kind = "reject"
  THEN Rethrown("LLM phrase generation failed", NoError, <<>>)
  ELSE LET parsed == parseJsonResponse(response, "phrases")
       IN IF parsed.ok THEN parsed
          ELSE Rethrown("LLM phrase generation failed", parsed.error, parsed.log)

\* called with a non-empty list only by consolidate; the empty list returns []
generateKanjiMeanings(kanjiList, response) ==
  IF kanjiList = <<>>
  THEN [ok |-> TRUE, data |-> <<>>, error |-> NoError, log |-> <<>>]
  ELSE IF response.kind = "reject"
  THEN Rethrown("LLM kanji generation failed", NoError, <<>>)
  ELSE LET parsed == parseJsonResponse(response, "kanji")
       IN IF parsed.ok THEN parsed
          ELSE Rethrown("LLM kanji generation failed", parsed.error, parsed.log)

\* -------------------------------------------------------------------- store
\* Tables Query, Phrase and Kanji; a table is the sequence of its rows in id
\* order.  Phrase is unique on (kanji, queryId), Kanji is unique on kanji,
\* and both reference Query by queryId.
PhraseRow(p, queryId) ==
  [englishMeaning |-> p.englishMeaning, kanji |-> p.kanji,
   phoneticKana |-> p.phoneticKana, phoneticRomaji |-> p.phoneticRomaji,
   kanjiBreakdown |-> p.kanjiBreakdown, queryId |-> queryId]

KanjiRow(k, queryId) ==
  [englishMeaning |-> k.englishMeaning, kanji |-> k.kanji,
   phoneticKana |-> k.phoneticKana, phoneticRomaji |-> k.phoneticRomaji,
   queryId |-> queryId]

PhraseInsertable(db, row) ==
  /\ row.queryId \in db.queries
  /\ ~\E i \in 1..Len(db.phrases) :
        /\ db.phrases[i].kanji = row.kanji
        /\ db.phrases[i].queryId = row.queryId

KanjiInsertable(db, row) ==
  /\ row.queryId \in db.queries
  /\ ~\E i \in 1..Len(db.kanji) : db.kanji[i].kanji = row.kanji

\* phrase.create / kanji.create: [ok, db]
createPhrase(db, row) ==
  IF PhraseInsertable(db, row)
  THEN [ok |-> TRUE, db |-> [db EXCEPT !.phrases = Append(@, row)]]
  ELSE [ok |-> FALSE, db |-> db]

createKanji(db, row) ==
  IF KanjiInsertable(db, row)
  THEN [ok |-> TRUE, db |-> [db EXCEPT !.kanji = Append(@, row)]]
  ELSE [ok |-> FALSE, db |-> db]

\* createMany is one INSERT statement: all rows or none
RECURSIVE InsertPhrases(_, _)
InsertPhrases(db, rows) ==
  IF rows = <<>> THEN [ok |-> TRUE, db |-> db]
  ELSE LET one == createPhrase(db, Head(rows))
       IN IF one.ok THEN InsertPhrases(one.db, Tail(rows)) ELSE one

createPhrases(db, rows) ==
  LET all == InsertPhrases(db, rows)
  IN IF all.ok THEN all ELSE [ok |-> FALSE, db |-> db]

RECURSIVE InsertKanjis(_, _)
InsertKanjis(db, rows) ==
  IF rows = <<>> THEN [ok |-> TRUE, db |-> db]
  ELSE LET one == createKanji(db, Head(rows))
       IN IF one.ok THEN InsertKanjis(one.db, Tail(rows)) ELSE one

createKanjis(db, rows) ==
  LET all == InsertKanjis(db, rows)
  IN IF all.ok THEN all ELSE [ok |-> FALSE, db |-> db]

\* kanji.findMany({ where: { kanji: { in: kanjis } }, select: { kanji } })
RECURSIVE KanjiColumn(_)
KanjiColumn(rows) ==
  IF rows = <<>> THEN <<>> ELSE <<Head(rows).kanji>> \o KanjiColumn(Tail(rows))

\* getExistingKanji that reports nothing
getExistingKanji_Nothing(db, kanjis) == <<>>

getExistingKanji(db, kanjis) ==
  KanjiColumn(SelectSeq(db.kanji, LAMBDA row : Contains(kanjis, row.kanji)))

\* mapDbPhrasesToCardData / mapDbKanjiToCardData
RECURSIVE mapDbPhrasesToCardData(_)
mapDbPhrasesToCardData(rows) ==
  IF rows = <<>> THEN <<>>
  ELSE <<PhraseOf(Head(rows))>> \o mapDbPhrasesToCardData(Tail(rows))

RECURSIVE mapDbKanjiToCardData(_)
mapDbKanjiToCardData(rows) ==
  IF rows = <<>> THEN <<>>
  ELSE << [englishMeaning |-> Head(rows).englishMeaning,
           kanji |-> Head(rows).kanji,
           phoneticKana |-> Head(rows).phoneticKana,
           phoneticRomaji |-> Head(rows).phoneticRomaji] >>
       \o mapDbKanjiToCardData(Tail(rows))

PhrasesOfQuery(db, id) == SelectSeq(db.phrases, LAMBDA row : row.queryId = id)
KanjiOfQuery(db, id) == SelectSeq(db.kanji, LAMBDA row : row.queryId = id)

\* getQueryWithCards that ignores the query id
getQueryWithCards_AnyQuery(db, id) ==
  [phrases |-> mapDbPhrasesToCardData(db.phrases),
   kanji |-> mapDbKanjiToCardData(db.kanji)]

\* query.findUnique with include, then the mapping of generateCards: a
\* missing query gives two empty lists
getQueryWithCards(db, id) ==
  IF id \in db.queries
  THEN [phrases |-> mapDbPhrasesToCardData(PhrasesOfQuery(db, id)),
        kanji |-> mapDbKanjiToCardData(KanjiOfQuery(db, id))]
  ELSE [phrases |-> <<>>, kanji |-> <<>>]

\* query.findUnique({ where: { id }, include: { phrases, kanji } }): the empty
\* list stands for null
QueryWithCards(db, id) ==
  IF id \in db.queries
  THEN << [id |-> id, phrases |-> PhrasesOfQuery(db, id),
           kanji |-> KanjiOfQuery(db, id)] >>
  ELSE <<>>

\* deleteQuery without the cascade to the rows of the query
deleteQuery_QueryRowOnly(db, id) ==
  IF id \in db.queries
  THEN [ok |-> TRUE, db |-> [db EXCEPT !.queries = @ \ {id}]]
  ELSE [ok |-> FALSE, db |-> db]

\* query.delete({ where: { id } }): the rows of Phrase and Kanji that refer to
\* the query go with it (ON DELETE CASCADE); a missing id is an error
deleteQuery(db, id) ==
  IF id \in db.queries
  THEN [ok |-> TRUE,
        db |-> [db EXCEPT
                  !.queries = @ \ {id},
                  !.phrases = SelectSeq(@, LAMBDA row : row.queryId # id),
                  !.kanji = SelectSeq(@, LAMBDA row : row.queryId # id)]]
  ELSE [ok |-> FALSE, db |-> db]

\* AUTOINCREMENT primary key of Query: one more than the largest id ever
\* given, deleted rows included
NextQueryId(db) == db.lastId + 1

\* ------------------------------------------------------------ recall helpers
\* the default selector of deduplicateByKey
DefaultSelector_Candidate(existing, candidate) == candidate

DefaultSelector(existing, candidate) ==
  IF existing.id < candidate.id THEN existing ELSE candidate

\* seen.get(key): the position of the key in the Map, 0 when it is absent
SeenAt(seen, key) ==
  IF \E i \in 1..Len(seen) : seen[i].kanji = key
  THEN CHOOSE i \in 1..Len(seen) : seen[i].kanji = key
  ELSE 0

\* the loop of deduplicateByKey with the key item.kanji; a Map keeps its keys
\* in insertion order and seen.set on a held key replaces the value in place
RECURSIVE SeenAfter(_, _)
SeenAfter(list, seen) ==
  IF list = <<>> THEN seen
  ELSE LET item == Head(list)
           at == SeenAt(seen, item.kanji)
       IN IF at = 0 THEN SeenAfter(Tail(list), Append(seen, item))
          ELSE SeenAfter(Tail(list),
                         [seen EXCEPT ![at] = DefaultSelector(seen[at], item)])

\* the loop of deduplicatePhrases and deduplicateKanji in the recall command
RECURSIVE RecallSeenAfter(_, _)
RecallSeenAfter(list, seen) ==
  IF list = <<>> THEN seen
  ELSE LET item == Head(list)
           at == SeenAt(seen, item.kanji)
       IN IF at = 0 THEN RecallSeenAfter(Tail(list), Append(seen, item))
          ELSE IF item.id < seen[at].id
          THEN RecallSeenAfter(Tail(list), [seen EXCEPT ![at] = item])
          ELSE RecallSeenAfter(Tail(list), seen)

\* one element put into a list sorted by id, after the elements that do not
\* compare greater (Array.prototype.sort is stable)
RECURSIVE InsertById(_, _)
InsertById(sorted, item) ==
  IF sorted = <<>> THEN <<item>>
  ELSE IF Head(sorted).id - item.id > 0 THEN <<item>> \o sorted
  ELSE <<Head(sorted)>> \o InsertById(Tail(sorted), item)

\* list.sort((a, b) => a.id - b.id)
RECURSIVE SortById(_)
SortById(list) ==
  IF list = <<>> THEN <<>>
  ELSE InsertById(SortById(SubSeq(list, 1, Len(list) - 1)), list[Len(list)])

deduplicateByKey(list) == SortById(SeenAfter(list, <<>>))

RecallDeduplicate(list) == SortById(RecallSeenAfter(list, <<>>))

\* ------------------------------------------------------------------- export
\* escapeCsvField that does not double the quotes
escapeCsvField_Undoubled(field) ==
  IF Contains(field, 44) \/ Contains(field, 34) \/ Contains(field, 10)
  THEN <<34>> \o field \o <<34>>
  ELSE field

escapeCsvField(field) ==
  IF Contains(field, 44) \/ Contains(field, 34) \/ Contains(field, 10)
  THEN <<34>> \o ReplaceAll(field, <<34>>, <<34, 34>>) \o <<34>>
  ELSE field

\* Array.prototype.join with a one-character separator
RECURSIVE JoinWith(_, _)
JoinWith(list, separator) ==
  IF list = <<>> THEN <<>>
  ELSE IF Len(list) = 1 THEN Head(list)
  ELSE Head(list) \o <<separator>> \o JoinWith(Tail(list), separator)

\* English Meaning, Kanji, Phonetic Kana, Phonetic Romaji, Kanji Breakdown
PhraseHeaders ==
  << <<69, 110, 103, 108, 105, 115, 104, 32, 77, 101, 97, 110, 105, 110, 103>>,
     <<75, 97, 110, 106, 105>>,
     <<80, 104, 111, 110, 101, 116, 105, 99, 32, 75, 97, 110, 97>>,
     <<80, 104, 111, 110, 101, 116, 105, 99, 32, 82, 111, 109, 97, 106, 105>>,
     <<75, 97, 110, 106, 105, 32, 66, 114, 101, 97, 107, 100, 111, 119, 110>> >>

KanjiHeaders == SubSeq(PhraseHeaders, 1, 4)

EscapedRow(row) == [i \in 1..Len(row) |-> escapeCsvField(row[i])]

\* [headers, ...rows].map((row) => row.join(',')).join('\n')
CsvOf(headers, rows) ==
  JoinWith([i \in 1..(Len(rows) + 1) |->
              JoinWith(IF i = 1 THEN headers ELSE EscapedRow(rows[i - 1]), 44)],
           10)

\* a phrase card is <<englishMeaning, kanji, phoneticKana, phoneticRomaji,
\* kanjiBreakdown>>, a kanji card the first four of these
convertPhrasesToCSV(phrases) == CsvOf(PhraseHeaders, phrases)

convertKanjiToCSV(kanji) == CsvOf(KanjiHeaders, kanji)

\* ------------------------------------------------------------------- inputs
SeqsUpTo(S, n) == UNION {[1..k -> S] : k \in 0..n}

\* U+51FA and U+53E3 as one-unit strings
De == <<20986>>
Kuchi == <<21475>>

\* "出 = exit / 口 = mouth"
DeguchiBreakdown ==
  <<20986, 32, 61, 32, 101, 120, 105, 116, 32, 47, 32,
    21475, 32, 61, 32, 109, 111, 117, 116, 104>>

\* the records a response or a rawLlmData list is made of: a phrase with a
\* breakdown, two one-character records of the same kanji, a phrase in kana
\* ("Kata Only"), and a record with an empty kanji
RawPool ==
  { [kanji |-> <<20986, 21475>>, englishMeaning |-> "Exit",
     phoneticKana |-> "deguchi (kana)", phoneticRomaji |-> "deguchi",
     kanjiBreakdown |-> DeguchiBreakdown],
    [kanji |-> De, englishMeaning |-> "exit",
     phoneticKana |-> "de (kana)", phoneticRomaji |-> "de",
     kanjiBreakdown |-> <<20986, 32, 61, 32, 101, 120, 105, 116>>],
    [kanji |-> De, englishMeaning |-> "go out",
     phoneticKana |-> "shutsu (kana)", phoneticRomaji |-> "shutsu",
     kanjiBreakdown |-> <<20986, 32, 61, 32, 103, 111>>],
    [kanji |-> <<12402, 12425>>, englishMeaning |-> "Hiragana",
     phoneticKana |-> "hira (kana)", phoneticRomaji |-> "hira",
     kanjiBreakdown |-> <<75, 97, 116, 97, 32, 79, 110, 108, 121>>],
    [kanji |-> <<>>, englishMeaning |-> "nothing",
     phoneticKana |-> "mu (kana)", phoneticRomaji |-> "mu",
     kanjiBreakdown |-> <<>>] }

\* the entries a kanji-meaning response is made of
LlmPool ==
  { [kanji |-> De, englishMeaning |-> "exit, go out",
     phoneticKana |-> "de (kana)", phoneticRomaji |-> "de"],
    [kanji |-> Kuchi, englishMeaning |-> "mouth, opening",
     phoneticKana |-> "guchi (kana)", phoneticRomaji |-> "guchi"],
    [kanji |-> <<39135>>, englishMeaning |-> "food",
     phoneticKana |-> "shoku (kana)", phoneticRomaji |-> "shoku"] }

\* an entry that kanjiSchema rejects: its kanji has two characters
TwoCharacterEntry ==
  [kanji |-> <<20986, 21475>>, englishMeaning |-> "Exit",
   phoneticKana |-> "deguchi (kana)", phoneticRomaji |-> "deguchi"]

\* a one-character element with the four descriptive fields and no
\* kanjiBreakdown key
DeWithoutBreakdown ==
  [kanji |-> De, englishMeaning |-> "exit",
   phoneticKana |-> "de (kana)", phoneticRomaji |-> "de"]

\* the elements a phrase response is made of
ElementPool == RawPool \cup {DeWithoutBreakdown}

\* the data rows of a response that is a pipe-delimited table
\* | English | Kanji | Kana | Breakdown |
TableRows ==
  << [englishMeaning |-> "Exit", kanji |-> <<20986, 21475>>,
      phoneticKana |-> "deguchi (kana)", kanjiBreakdown |-> DeguchiBreakdown] >>

PhraseResponses ==
  {Rejected, NoArrayText, BadJsonText, TableText(TableRows)}
    \cup {ArrayText(e) : e \in SeqsUpTo(ElementPool, MaxRecords)}

KanjiResponses ==
  {Rejected, NoArrayText, BadJsonText, ArrayText(<<TwoCharacterEntry>>)}
    \cup {ArrayText(e) : e \in SeqsUpTo(LlmPool, MaxLlmEntries)}

\* query ids a caller of generateCards passes: an existing and a missing one
QueryIds == {1, 2}

\* catalogues left by earlier runs: query 1, with or without its phrase, and
\* any of the two kanji
StoredKanji ==
  { <<>>,
    << [kanji |-> De, englishMeaning |-> "exit (stored)",
        phoneticKana |-> "de (kana)", phoneticRomaji |-> "de", queryId |-> 1] >>,
    << [kanji |-> Kuchi, englishMeaning |-> "mouth (stored)",
        phoneticKana |-> "kuchi (kana)", phoneticRomaji |-> "kuchi", queryId |-> 1] >>,
    << [kanji |-> De, englishMeaning |-> "exit (stored)",
        phoneticKana |-> "de (kana)", phoneticRomaji |-> "de", queryId |-> 1],
       [kanji |-> Kuchi, englishMeaning |-> "mouth (stored)",
        phoneticKana |-> "kuchi (kana)", phoneticRomaji |-> "kuchi", queryId |-> 1] >> }

StoredPhrases ==
  { <<>>,
    << [kanji |-> <<20986, 21475>>, englishMeaning |-> "Exit (stored)",
        phoneticKana |-> "deguchi (kana)", phoneticRomaji |-> "deguchi",
        kanjiBreakdown |-> DeguchiBreakdown, queryId |-> 1] >> }

InitialStores ==
  { [queries |-> {1}, lastId |-> 1, phrases |-> p, kanji |-> k] :
      p \in StoredPhrases, k \in StoredKanji }

\* -------------------------------------------------------------------- state
VARIABLES
  pc,          \* position of the run
  entry,       \* the entry point the run came in by
  response,    \* what the text-generation call yields
  rawData,     \* rawLlmData / rawPhrases
  queryId,     \* the query the cards are stored under (0: none yet)
  idx,         \* loop index of the per-row save loops of Cards.run
  store,       \* the database
  store0,      \* the database when the run began
  cons,        \* locals of consolidate and its result
  llmKanjiData,\* what generateKanjiMeanings returned to consolidate
  enrich,      \* "none", "ok" or "failed": how the lookup call ended
  llmCalls,    \* the lists generateKanjiMeanings was called with
  events,      \* the store and gateway operations of the run, in order
  result,      \* the returned (or displayed) card data
  err,         \* which step raised
  thrown,      \* the Error generatePhrases threw
  errorLog     \* the log.error entries of the text-generation service

\* the inputs and outputs of the text functions applied on their own
VARIABLES
  tpc,         \* "idle", "received", "cleaned" or "extracted"
  source,      \* how the input text was made
  payload,     \* the text the complete chunks of a streamed response carry
  pieces,      \* the pieces of the payload, one per chunk
  tail,        \* the content of a chunk that was cut off
  text,        \* the input: a raw response, or a kanjiBreakdown
  cleaned,     \* what cleanStreamingResponse returned
  extracted    \* what extractKanjiFromBreakdown returned

textVars == <<tpc, source, payload, pieces, tail, text, cleaned, extracted>>

\* the inputs and outputs of the recall and export helpers
VARIABLES
  items,       \* the rows handed to the deduplication functions
  deduped,     \* what the deduplication functions returned
  cards,       \* the exported cards, each the list of its fields
  csv          \* what escapeCsvField or the CSV conversion returned

utilVars == <<items, deduped, cards, csv>>

\* runs that follow or overlap each other
VARIABLES
  runNo,       \* the number of the run under way
  pending,     \* kanji an earlier run dropped and no run has stored since
  proc         \* the two overlapping runs of Cards.run

multiVars == <<runNo, pending, proc>>

runVars == <<pc, entry, response, rawData, queryId, idx, store, store0, cons,
             llmKanjiData, enrich, llmCalls, events, result, err, thrown,
             errorLog>>

vars == <<runVars, textVars, utilVars, multiVars>>

NoText ==
  /\ tpc = "idle"
  /\ source = "none"
  /\ payload = <<>>
  /\ pieces = <<>>
  /\ tail = <<>>
  /\ text = <<>>
  /\ cleaned = <<>>
  /\ extracted = <<>>
  /\ items = <<>>
  /\ deduped = [byKey |-> <<>>, recall |-> <<>>]
  /\ cards = <<>>
  /\ csv = <<>>

NoCons ==
  [phrases |-> <<>>, kanjiSet |-> <<>>, kanjiData |-> EmptyMap,
   storeQueries |-> <<>>, existingKanji |-> <<>>, newKanji |-> <<>>,
   kanjiNeedingLookup |-> <<>>, kanji |-> <<>>]

NoResult == [phrases |-> <<>>, kanji |-> <<>>]

\* no run under way on a store s
IdleOn(s) ==
  /\ pc = "idle"
  /\ entry = "none"
  /\ response = Rejected
  /\ rawData = <<>>
  /\ queryId = 0
  /\ idx = 0
  /\ store = s
  /\ store0 = s
  /\ cons = NoCons
  /\ llmKanjiData = <<>>
  /\ enrich = "none"
  /\ llmCalls = <<>>
  /\ events = <<>>
  /\ result = NoResult
  /\ err = "none"
  /\ thrown = NoError
  /\ errorLog = <<>>

NoRuns ==
  /\ runNo = 1
  /\ pending = {}
  /\ proc = <<>>

Init ==
  /\ \E s \in InitialStores : IdleOn(s)
  /\ NoText
  /\ NoRuns

UsesCli == entry = "Cards.run"
UsesService == entry = "CardService.generateCards"

\* ------------------------------------------------------------- entry points
\* cardo cards <count> <domain>
StartCards ==
  /\ pc = "idle"
  /\ \E r \in PhraseResponses : response' = r
  /\ entry' = "Cards.run"
  /\ pc' = "generatePhrases"
  /\ UNCHANGED <<rawData, queryId, idx, store, store0, cons, llmKanjiData,
                 enrich, llmCalls, events, result, err>>
  /\ UNCHANGED <<thrown, errorLog>>
  /\ UNCHANGED <<textVars, utilVars, multiVars>>

StartGenerateCardsFromQuery ==
  /\ pc = "idle"
  /\ \E r \in PhraseResponses : response' = r
  /\ \E q \in QueryIds : queryId' = q
  /\ entry' = "generateCardsFromQuery"
  /\ pc' = "generatePhrases"
  /\ UNCHANGED <<rawData, idx, store, store0, cons, llmKanjiData, enrich,
                 llmCalls, events, result, err>>
  /\ UNCHANGED <<thrown, errorLog>>
  /\ UNCHANGED <<textVars, utilVars, multiVars>>

StartGenerateCards ==
  /\ pc = "idle"
  /\ \E raw \in SeqsUpTo(RawPool, MaxRecords) : rawData' = raw
  /\ \E q \in QueryIds : queryId' = q
  /\ entry' = "generateCards"
  /\ pc' = "consolidate"
  /\ UNCHANGED <<response, idx, store, store0, cons, llmKanjiData, enrich,
                 llmCalls, events, result, err>>
  /\ UNCHANGED <<thrown, errorLog>>
  /\ UNCHANGED <<textVars, utilVars, multiVars>>

StartCardService ==
  /\ pc = "idle"
  /\ \E raw \in SeqsUpTo(RawPool, MaxRecords) : rawData' = raw
  /\ \E q \in QueryIds : queryId' = q
  /\ entry' = "CardService.generateCards"
  /\ pc' = "consolidate"
  /\ UNCHANGED <<response, idx, store, store0, cons, llmKanjiData, enrich,
                 llmCalls, events, result, err>>
  /\ UNCHANGED <<thrown, errorLog>>
  /\ UNCHANGED <<textVars, utilVars, multiVars>>

\* ---------------------------------------------------------- text generation
\* llmService.generatePhrases and what the caller does with its outcome
GeneratePhrases ==
  /\ pc = "generatePhrases"
  /\ LET r == generatePhrases(response)
     IN IF ~r.ok
        THEN /\ pc' = "raised"
             /\ err' = "generatePhrases"
             /\ thrown' = r.error
             /\ errorLog' = errorLog \o r.log
             /\ UNCHANGED rawData
        ELSE IF UsesCli /\ Len(r.data) = 0
        THEN /\ pc' = "warned"
             /\ UNCHANGED <<err, rawData, thrown, errorLog>>
        ELSE /\ pc' = IF UsesCli THEN "createQuery" ELSE "consolidate"
             /\ rawData' = r.data
             /\ UNCHANGED <<err, thrown, errorLog>>
  /\ events' = Append(events, "generatePhrases")
  /\ UNCHANGED <<entry, response, queryId, idx, store, store0, cons,
                 llmKanjiData, enrich, llmCalls, result>>
  /\ UNCHANGED <<textVars, utilVars, multiVars>>

\* ------------------------------------------------- Cards.run, before consolidate
CardsCreateQuery ==
  /\ pc = "createQuery"
  /\ queryId' = NextQueryId(store)
  /\ store' = [store EXCEPT !.queries = @ \cup {NextQueryId(store)},
                            !.lastId = NextQueryId(store)]
  /\ idx' = 1
  /\ pc' = "savePhrase"
  /\ events' = Append(events, "createQuery")
  /\ UNCHANGED <<entry, response, rawData, store0, cons, llmKanjiData, enrich,
                 llmCalls, result, err>>
  /\ UNCHANGED <<thrown, errorLog>>
  /\ UNCHANGED <<textVars, utilVars, multiVars>>

\* one iteration of "for (const phrase of rawPhrases) db.phrase.create"
CardsSavePhrase ==
  /\ pc = "savePhrase"
  /\ idx <= Len(rawData)
  /\ LET created == createPhrase(store, PhraseRow(rawData[idx], queryId))
     IN /\ store' = created.db
        /\ IF created.ok
           THEN /\ pc' = IF idx = Len(rawData) THEN "consolidate" ELSE "savePhrase"
                /\ idx' = idx + 1
                /\ UNCHANGED err
           ELSE /\ pc' = "raised"
                /\ err' = "store"
                /\ UNCHANGED idx
  /\ events' = Append(events, "writePhrase")
  /\ UNCHANGED <<entry, response, rawData, queryId, store0, cons,
                 llmKanjiData, enrich, llmCalls, result>>
  /\ UNCHANGED <<thrown, errorLog>>
  /\ UNCHANGED <<textVars, utilVars, multiVars>>

\* ---------------------------------------------------------------- consolidate
\* steps 1 and 2, and the read of step 3
ConsolidateGetExistingKanji ==
  /\ pc = "consolidate"
  /\ LET c == Classify(rawData)
     IN cons' = [cons EXCEPT !.phrases = c.phrases,
                             !.kanjiSet = c.kanjiSet,
                             !.kanjiData = c.kanjiData,
                             !.storeQueries = Append(@, c.kanjiSet),
                             !.existingKanji = getExistingKanji(store, c.kanjiSet)]
  /\ pc' = "lookup"
  /\ events' = Append(events, "getExistingKanji")
  /\ UNCHANGED <<entry, response, rawData, queryId, idx, store, store0,
                 llmKanjiData, enrich, llmCalls, result, err>>
  /\ UNCHANGED <<thrown, errorLog>>
  /\ UNCHANGED <<textVars, utilVars, multiVars>>

AfterConsolidate(kanji) ==
  IF UsesCli THEN (IF Len(kanji) = 0 THEN "fetch" ELSE "saveKanji")
  ELSE "createPhrases"

\* steps 3 to 6 when no new kanji lacks data: no call is made
ConsolidateWithoutLookup ==
  /\ pc = "lookup"
  /\ ~UsesService
  /\ LET newKanji == NewKanji(cons.kanjiSet, cons.existingKanji)
         needing == KanjiNeedingLookup(newKanji, cons.kanjiData)
         kanji == BuildKanji(newKanji, cons.kanjiData)
     IN /\ Len(needing) = 0
        /\ cons' = [cons EXCEPT !.newKanji = newKanji,
                                !.kanjiNeedingLookup = needing,
                                !.kanji = kanji]
        /\ pc' = AfterConsolidate(kanji)
  /\ idx' = 1
  /\ events' = Append(events, "consolidated")
  /\ UNCHANGED <<entry, response, rawData, queryId, store, store0,
                 llmKanjiData, enrich, llmCalls, result, err>>
  /\ UNCHANGED <<thrown, errorLog>>
  /\ UNCHANGED <<textVars, utilVars, multiVars>>

\* steps 3 to 6 with the call of step 5; a failed call is caught and logged
ConsolidateWithLookup ==
  /\ pc = "lookup"
  /\ ~UsesService
  /\ LET newKanji == NewKanji(cons.kanjiSet, cons.existingKanji)
         needing == KanjiNeedingLookup(newKanji, cons.kanjiData)
     IN /\ Len(needing) > 0
        /\ \E r \in KanjiResponses :
             LET got == generateKanjiMeanings(needing, r)
                 kanjiData == CatchLookup(cons.kanjiData, got)
                 kanji == BuildKanji(newKanji, kanjiData)
             IN /\ llmKanjiData' = got.data
                /\ enrich' = IF got.ok THEN "ok" ELSE "failed"
                /\ cons' = [cons EXCEPT !.newKanji = newKanji,
                                        !.kanjiNeedingLookup = needing,
                                        !.kanjiData = kanjiData,
                                        !.kanji = kanji]
                /\ errorLog' = errorLog \o got.log
                /\ pc' = AfterConsolidate(kanji)
        /\ llmCalls' = Append(llmCalls, needing)
  /\ idx' = 1
  /\ events' = events \o <<"generateKanjiMeanings", "consolidated">>
  /\ UNCHANGED <<entry, response, rawData, queryId, store, store0, result, err>>
  /\ UNCHANGED thrown
  /\ UNCHANGED <<textVars, utilVars, multiVars>>

\* ConsolidationService.consolidate: the same steps without step 4 and 5
ServiceConsolidate ==
  /\ pc = "lookup"
  /\ UsesService
  /\ LET newKanji == NewKanji(cons.kanjiSet, cons.existingKanji)
         kanji == BuildKanji(newKanji, cons.kanjiData)
     IN cons' = [cons EXCEPT !.newKanji = newKanji, !.kanji = kanji]
  /\ pc' = "createPhrases"
  /\ events' = Append(events, "consolidated")
  /\ UNCHANGED <<entry, response, rawData, queryId, idx, store, store0,
                 llmKanjiData, enrich, llmCalls, result, err>>
  /\ UNCHANGED <<thrown, errorLog>>
  /\ UNCHANGED <<textVars, utilVars, multiVars>>

\* --------------------------------- generateCards / CardService.generateCards
\* consolidated.phrases.map((phrase) => ({ ...phrase, queryId }))
RECURSIVE PhraseRows(_, _)
PhraseRows(list, id) ==
  IF list = <<>> THEN <<>>
  ELSE <<PhraseRow(Head(list), id)>> \o PhraseRows(Tail(list), id)

\* consolidated.kanji.map((kanji) => ({ ...kanji, queryId }))
RECURSIVE KanjiRows(_, _)
KanjiRows(list, id) ==
  IF list = <<>> THEN <<>>
  ELSE <<KanjiRow(Head(list), id)>> \o KanjiRows(Tail(list), id)

\* step 2: createPhrases, skipped for an empty list
GenerateCardsCreatePhrases ==
  /\ pc = "createPhrases"
  /\ IF Len(cons.phrases) > 0
     THEN LET created == createPhrases(store, PhraseRows(cons.phrases, queryId))
          IN /\ store' = created.db
             /\ pc' = IF created.ok THEN "createKanjis" ELSE "raised"
             /\ err' = IF created.ok THEN err ELSE "store"
             /\ events' = Append(events, "writePhrase")
     ELSE /\ pc' = "createKanjis"
          /\ UNCHANGED <<store, err, events>>
  /\ UNCHANGED <<entry, response, rawData, queryId, idx, store0, cons,
                 llmKanjiData, enrich, llmCalls, result>>
  /\ UNCHANGED <<thrown, errorLog>>
  /\ UNCHANGED <<textVars, utilVars, multiVars>>

\* step 3: createKanjis, skipped for an empty list
GenerateCardsCreateKanjis ==
  /\ pc = "createKanjis"
  /\ IF Len(cons.kanji) > 0
     THEN LET created == createKanjis(store, KanjiRows(cons.kanji, queryId))
          IN /\ store' = created.db
             /\ pc' = IF created.ok THEN "getQueryWithCards" ELSE "raised"
             /\ err' = IF created.ok THEN err ELSE "store"
             /\ events' = Append(events, "writeKanji")
     ELSE /\ pc' = "getQueryWithCards"
          /\ UNCHANGED <<store, err, events>>
  /\ UNCHANGED <<entry, response, rawData, queryId, idx, store0, cons,
                 llmKanjiData, enrich, llmCalls, result>>
  /\ UNCHANGED <<thrown, errorLog>>
  /\ UNCHANGED <<textVars, utilVars, multiVars>>

\* step 4: the cards of the query as the store has them
GenerateCardsGetQueryWithCards ==
  /\ pc = "getQueryWithCards"
  /\ result' = getQueryWithCards(store, queryId)
  /\ pc' = "returned"
  /\ events' = Append(events, "readBack")
  /\ UNCHANGED <<entry, response, rawData, queryId, idx, store, store0, cons,
                 llmKanjiData, enrich, llmCalls, err>>
  /\ UNCHANGED <<thrown, errorLog>>
  /\ UNCHANGED <<textVars, utilVars, multiVars>>

\* -------------------------------------------------- Cards.run, after consolidate
\* one iteration of "for (const kanji of consolidated.kanji) db.kanji.create"
CardsSaveKanji ==
  /\ pc = "saveKanji"
  /\ idx <= Len(cons.kanji)
  /\ LET created == createKanji(store, KanjiRow(cons.kanji[idx], queryId))
     IN /\ store' = created.db
        /\ IF created.ok
           THEN /\ pc' = IF idx = Len(cons.kanji) THEN "fetch" ELSE "saveKanji"
                /\ idx' = idx + 1
                /\ UNCHANGED err
           ELSE /\ pc' = "raised"
                /\ err' = "store"
                /\ UNCHANGED idx
  /\ events' = Append(events, "writeKanji")
  /\ UNCHANGED <<entry, response, rawData, queryId, store0, cons,
                 llmKanjiData, enrich, llmCalls, result>>
  /\ UNCHANGED <<thrown, errorLog>>
  /\ UNCHANGED <<textVars, utilVars, multiVars>>

\* phrase.findMany and kanji.findMany where queryId, for display and export
CardsFetch ==
  /\ pc = "fetch"
  /\ result' = [phrases |-> mapDbPhrasesToCardData(PhrasesOfQuery(store, queryId)),
                kanji |-> mapDbKanjiToCardData(KanjiOfQuery(store, queryId))]
  /\ pc' = "returned"
  /\ events' = Append(events, "readBack")
  /\ UNCHANGED <<entry, response, rawData, queryId, idx, store, store0, cons,
                 llmKanjiData, enrich, llmCalls, err>>
  /\ UNCHANGED <<thrown, errorLog>>
  /\ UNCHANGED <<textVars, utilVars, multiVars>>

Next ==
  \/ StartCards
  \/ StartGenerateCardsFromQuery
  \/ StartGenerateCards
  \/ StartCardService
  \/ GeneratePhrases
  \/ CardsCreateQuery
  \/ CardsSavePhrase
  \/ ConsolidateGetExistingKanji
  \/ ConsolidateWithoutLookup
  \/ ConsolidateWithLookup
  \/ ServiceConsolidate
  \/ GenerateCardsCreatePhrases
  \/ GenerateCardsCreateKanjis
  \/ GenerateCardsGetQueryWithCards
  \/ CardsSaveKanji
  \/ CardsFetch

Spec == Init /\ [][Next]_vars

\* ------------------------------------------------------------ a series of runs
\* the responses of the runs of a series: rejected, or up to MaxRunRecords of
\* the phrase and the one-character record "exit"
RunResponses ==
  {Rejected} \cup
  {ArrayText(e) :
     e \in SeqsUpTo({r \in RawPool : r.englishMeaning \in {"Exit", "exit"}},
                    MaxRunRecords)}

\* the new kanji of the run that it did not emit
Dropped ==
  {cons.newKanji[i] : i \in
     {j \in 1..Len(cons.newKanji) :
        ~\E n \in 1..Len(cons.kanji) : cons.kanji[n].kanji = cons.newKanji[j]}}

StoredLexemes == {store.kanji[i].kanji : i \in 1..Len(store.kanji)}

InitRuns ==
  /\ IdleOn([queries |-> {}, lastId |-> 0, phrases |-> <<>>, kanji |-> <<>>])
  /\ NoText
  /\ NoRuns

\* cardo cards <count> <domain>, once more
StartRun ==
  /\ pc = "idle"
  /\ runNo <= MaxRuns
  /\ \E r \in RunResponses : response' = r
  /\ entry' = "Cards.run"
  /\ pc' = "generatePhrases"
  /\ UNCHANGED <<rawData, queryId, idx, store, store0, cons, llmKanjiData,
                 enrich, llmCalls, events, result, err>>
  /\ UNCHANGED <<thrown, errorLog>>
  /\ UNCHANGED <<textVars, utilVars, multiVars>>

\* deleteQuery(id), of a query the store has or of one it does not have
DeleteQuery ==
  /\ pc = "idle"
  /\ runNo <= MaxRuns
  /\ \E id \in 1..(store.lastId + 1) :
       LET deleted == deleteQuery(store, id)
       IN /\ store' = deleted.db
          /\ queryId' = id
          /\ pc' = IF deleted.ok THEN "deleted" ELSE "raised"
          /\ err' = IF deleted.ok THEN "none" ELSE "store"
  /\ entry' = "deleteQuery"
  /\ events' = Append(events, "deleteQuery")
  /\ UNCHANGED <<response, rawData, idx, store0, cons, llmKanjiData, enrich,
                 llmCalls, result>>
  /\ UNCHANGED <<thrown, errorLog>>
  /\ UNCHANGED <<textVars, utilVars, multiVars>>

\* the process has ended and the next one starts on the store it left
NextRun ==
  /\ pc \in {"returned", "raised", "warned", "deleted"}
  /\ runNo < MaxRuns
  /\ runNo' = runNo + 1
  /\ pending' = (pending \cup Dropped) \ StoredLexemes
  /\ store0' = store
  /\ pc' = "idle"
  /\ entry' = "none"
  /\ response' = Rejected
  /\ rawData' = <<>>
  /\ queryId' = 0
  /\ idx' = 0
  /\ cons' = NoCons
  /\ llmKanjiData' = <<>>
  /\ enrich' = "none"
  /\ llmCalls' = <<>>
  /\ events' = <<>>
  /\ result' = NoResult
  /\ err' = "none"
  /\ thrown' = NoError
  /\ errorLog' = <<>>
  /\ UNCHANGED <<store, proc>>
  /\ UNCHANGED <<textVars, utilVars>>

NextRuns ==
  \/ StartRun
  \/ DeleteQuery
  \/ NextRun
  \/ GeneratePhrases
  \/ CardsCreateQuery
  \/ CardsSavePhrase
  \/ ConsolidateGetExistingKanji
  \/ ConsolidateWithoutLookup
  \/ ConsolidateWithLookup
  \/ CardsSaveKanji
  \/ CardsFetch

SpecRuns == InitRuns /\ [][NextRuns]_vars

\* ------------------------------------------------------------ overlapping runs
\* two invocations of cardo cards at once, on one store. One of them is at a
\* step; the other waits at one of its awaits, with its own variables kept in
\* proc. The processes share nothing but the store.
Context ==
  [pc |-> pc, entry |-> entry, response |-> response, rawData |-> rawData,
   queryId |-> queryId, idx |-> idx, cons |-> cons,
   llmKanjiData |-> llmKanjiData, enrich |-> enrich, llmCalls |-> llmCalls,
   events |-> events, result |-> result, err |-> err, thrown |-> thrown,
   errorLog |-> errorLog]

\* the responses of overlapping runs: the phrase, alone or followed by the
\* one-character record "exit"
OverlapResponses ==
  LET phrase == CHOOSE r \in RawPool : r.englishMeaning = "Exit"
      character == CHOOSE r \in RawPool : r.englishMeaning = "exit"
  IN {ArrayText(<<phrase>>), ArrayText(<<phrase, character>>)}

InitOverlap ==
  /\ IdleOn([queries |-> {}, lastId |-> 0, phrases |-> <<>>, kanji |-> <<>>])
  /\ NoText
  /\ runNo = 1
  /\ pending = {}
  /\ proc = Context

StartOverlapping ==
  /\ pc = "idle"
  /\ \E r \in OverlapResponses : response' = r
  /\ entry' = "Cards.run"
  /\ pc' = "generatePhrases"
  /\ UNCHANGED <<rawData, queryId, idx, store, store0, cons, llmKanjiData,
                 enrich, llmCalls, events, result, err>>
  /\ UNCHANGED <<thrown, errorLog>>
  /\ UNCHANGED <<textVars, utilVars, multiVars>>

\* the process at a step waits at its await and the other one goes on
Switch ==
  /\ proc' = Context
  /\ runNo' = IF runNo = 1 THEN 2 ELSE 1
  /\ pc' = proc.pc
  /\ entry' = proc.entry
  /\ response' = proc.response
  /\ rawData' = proc.rawData
  /\ queryId' = proc.queryId
  /\ idx' = proc.idx
  /\ cons' = proc.cons
  /\ llmKanjiData' = proc.llmKanjiData
  /\ enrich' = proc.enrich
  /\ llmCalls' = proc.llmCalls
  /\ events' = proc.events
  /\ result' = proc.result
  /\ err' = proc.err
  /\ thrown' = proc.thrown
  /\ errorLog' = proc.errorLog
  /\ UNCHANGED <<store, store0, pending>>
  /\ UNCHANGED <<textVars, utilVars>>

NextOverlap ==
  \/ StartOverlapping
  \/ Switch
  \/ GeneratePhrases
  \/ CardsCreateQuery
  \/ CardsSavePhrase
  \/ ConsolidateGetExistingKanji
  \/ ConsolidateWithoutLookup
  \/ ConsolidateWithLookup
  \/ CardsSaveKanji
  \/ CardsFetch

SpecOverlap == InitOverlap /\ [][NextOverlap]_vars

\* ------------------------------------------- the text functions on their own
\* characters of a response text: " \ newline tab 0 : a
TextAlphabet == {34, 92, 10, 9, 48, 58, 97}

\* characters of a text that arrives unchunked: 0 : " \ n t a
RawAlphabet == {48, 58, 34, 92, 110, 116, 97}

\* characters of a breakdown: U+51FA, U+53E3, U+3400, the two code units of
\* U+20000, a, space, / , ;
BreakdownAlphabet == {20986, 21475, 13312, 55360, 56320, 97, 32, 47, 44, 59}

\* characters of an exported field: a , " newline
CsvAlphabet == {97, 44, 34, 10}

\* characters of a field escaped on its own: a space , " newline return
FieldAlphabet == {97, 32, 44, 34, 10, 13}

\* rows of the Phrase or Kanji table, as far as deduplication reads them:
\* distinct ids, any kanji
ItemLists ==
  {list \in SeqsUpTo([id : 1..MaxItems, kanji : {De, Kuchi}], MaxItems) :
     \A i, j \in 1..Len(list) : list[i].id = list[j].id => i = j}

\* characters around a "kata only" marker: U+51FA, a, /
AffixAlphabet == {20986, 97, 47}

\* one character of a text as it stands in a JSON string body
EscapeChar(c) ==
  IF c = 34 THEN <<92, 34>>
  ELSE IF c = 92 THEN <<92, 92>>
  ELSE IF c = 10 THEN <<92, 110>>
  ELSE IF c = 9 THEN <<92, 116>>
  ELSE <<c>>

RECURSIVE Escape(_)
Escape(t) ==
  IF t = <<>> THEN <<>> ELSE EscapeChar(Head(t)) \o Escape(Tail(t))

\* the stream of a list of pieces: 0:"<piece>" for each piece
RECURSIVE EncodeChunks(_)
EncodeChunks(list) ==
  IF list = <<>> THEN <<>>
  ELSE ChunkPrefix \o Escape(Head(list)) \o <<34>> \o EncodeChunks(Tail(list))

\* the pieces of t from position from on when it is cut after the positions
\* in cuts
RECURSIVE PiecesFrom(_, _, _, _)
PiecesFrom(t, cuts, from, cur) ==
  IF from > Len(t) THEN <<cur>>
  ELSE IF from \in cuts
  THEN <<Append(cur, t[from])>> \o PiecesFrom(t, cuts, from + 1, <<>>)
  ELSE PiecesFrom(t, cuts, from + 1, Append(cur, t[from]))

PiecesOf(t, cuts) == PiecesFrom(t, cuts, 1, <<>>)

\* "kata only" with the letters at the positions in upper written in capitals
Cased(marker, upper) ==
  [i \in 1..Len(marker) |->
     IF i \in upper /\ marker[i] \in 97..122 THEN marker[i] - 32 ELSE marker[i]]

InitText ==
  /\ IdleOn([queries |-> {1}, lastId |-> 1, phrases |-> <<>>, kanji |-> <<>>])
  /\ NoText
  /\ NoRuns

\* a response that arrives as one plain text
ReceivePlain ==
  /\ tpc = "idle"
  /\ \E t \in SeqsUpTo(RawAlphabet, MaxTextLen) : text' = t
  /\ source' = "plain"
  /\ tpc' = "received"
  /\ UNCHANGED <<payload, pieces, tail, cleaned, extracted>>
  /\ UNCHANGED <<runVars, utilVars, multiVars>>

\* a response that arrives as a sequence of complete chunks
ReceiveChunked ==
  /\ tpc = "idle"
  /\ \E t \in SeqsUpTo(TextAlphabet, MaxTextLen) :
       \E cuts \in SUBSET (1..(Len(t) - 1)) :
         /\ payload' = t
         /\ pieces' = PiecesOf(t, cuts)
         /\ text' = EncodeChunks(PiecesOf(t, cuts))
  /\ source' = "chunked"
  /\ tpc' = "received"
  /\ UNCHANGED <<tail, cleaned, extracted>>
  /\ UNCHANGED <<runVars, utilVars, multiVars>>

\* a response whose last chunk was cut off before its closing quote
ReceiveTruncated ==
  /\ tpc = "idle"
  /\ \E t \in SeqsUpTo(TextAlphabet, MaxTextLen) :
       \E k \in 0..Len(t) :
         \E cuts \in SUBSET (1..(k - 1)) :
           /\ payload' = SubSeq(t, 1, k)
           /\ pieces' = PiecesOf(SubSeq(t, 1, k), cuts)
           /\ tail' = SubSeq(t, k + 1, Len(t))
           /\ text' = EncodeChunks(PiecesOf(SubSeq(t, 1, k), cuts))
                        \o ChunkPrefix \o Escape(SubSeq(t, k + 1, Len(t)))
  /\ source' = "truncated"
  /\ tpc' = "received"
  /\ UNCHANGED <<cleaned, extracted>>
  /\ UNCHANGED <<runVars, utilVars, multiVars>>

\* const cleanResponse = cleanStreamingResponse(response)
Clean ==
  /\ tpc = "received"
  /\ source \in {"plain", "chunked", "truncated"}
  /\ cleaned' = cleanStreamingResponse(text)
  /\ tpc' = "cleaned"
  /\ UNCHANGED <<source, payload, pieces, tail, text, extracted>>
  /\ UNCHANGED <<runVars, utilVars, multiVars>>

\* the kanjiBreakdown of a phrase
ReceiveBreakdown ==
  /\ tpc = "idle"
  /\ \E b \in SeqsUpTo(BreakdownAlphabet, MaxBreakdownLen) : text' = b
  /\ source' = "breakdown"
  /\ tpc' = "received"
  /\ UNCHANGED <<payload, pieces, tail, cleaned, extracted>>
  /\ UNCHANGED <<runVars, utilVars, multiVars>>

\* a kanjiBreakdown that holds "kata only" in some letter case
ReceiveKataOnly ==
  /\ tpc = "idle"
  /\ \E before \in SeqsUpTo(AffixAlphabet, MaxAffixLen) :
       \E after \in SeqsUpTo(AffixAlphabet, MaxAffixLen) :
         \E upper \in SUBSET (1..Len(KataOnly)) :
           text' = before \o Cased(KataOnly, upper) \o after
  /\ source' = "kataOnly"
  /\ tpc' = "received"
  /\ UNCHANGED <<payload, pieces, tail, cleaned, extracted>>
  /\ UNCHANGED <<runVars, utilVars, multiVars>>

\* const extractedKanji = extractKanjiFromBreakdown(item.kanjiBreakdown)
Extract ==
  /\ tpc = "received"
  /\ source \in {"breakdown", "kataOnly"}
  /\ extracted' = extractKanjiFromBreakdown(text)
  /\ tpc' = "extracted"
  /\ UNCHANGED <<source, payload, pieces, tail, text, cleaned>>
  /\ UNCHANGED <<runVars, utilVars, multiVars>>

\* the rows of all queries, handed to the deduplication of the recall command
Deduplicate ==
  /\ tpc = "idle"
  /\ \E list \in ItemLists :
       /\ items' = list
       /\ deduped' = [byKey |-> deduplicateByKey(list),
                      recall |-> RecallDeduplicate(list)]
  /\ source' = "rows"
  /\ tpc' = "deduplicated"
  /\ UNCHANGED <<payload, pieces, tail, text, cleaned, extracted, cards, csv>>
  /\ UNCHANGED <<runVars, multiVars>>

\* one field of a card
EscapeField ==
  /\ tpc = "idle"
  /\ \E f \in SeqsUpTo(FieldAlphabet, MaxTextLen) :
       /\ text' = f
       /\ csv' = escapeCsvField(f)
  /\ source' = "field"
  /\ tpc' = "escaped"
  /\ UNCHANGED <<payload, pieces, tail, cleaned, extracted, items, deduped, cards>>
  /\ UNCHANGED <<runVars, multiVars>>

\* the export of one kanji card
ExportKanji ==
  /\ tpc = "idle"
  /\ \E c \in [1..4 -> SeqsUpTo(CsvAlphabet, MaxFieldLen)] :
       /\ cards' = <<c>>
       /\ csv' = convertKanjiToCSV(<<c>>)
  /\ source' = "kanji.csv"
  /\ tpc' = "exported"
  /\ UNCHANGED <<payload, pieces, tail, text, cleaned, extracted, items, deduped>>
  /\ UNCHANGED <<runVars, multiVars>>

\* the export of two phrase cards, whose fields repeat two values
ExportPhrase ==
  /\ tpc = "idle"
  /\ \E f \in SeqsUpTo(CsvAlphabet, MaxFieldLen) :
       \E g \in SeqsUpTo(CsvAlphabet, MaxFieldLen) :
         /\ cards' = << <<f, g, g, f, f \o g>>, <<g, f, f, f \o g, g>> >>
         /\ csv' = convertPhrasesToCSV(<< <<f, g, g, f, f \o g>>,
                                         <<g, f, f, f \o g, g>> >>)
  /\ source' = "phrases.csv"
  /\ tpc' = "exported"
  /\ UNCHANGED <<payload, pieces, tail, text, cleaned, extracted, items, deduped>>
  /\ UNCHANGED <<runVars, multiVars>>

NextText ==
  \/ ReceivePlain
  \/ ReceiveChunked
  \/ ReceiveTruncated
  \/ Clean
  \/ ReceiveBreakdown
  \/ ReceiveKataOnly
  \/ Extract
  \/ Deduplicate
  \/ EscapeField
  \/ ExportKanji
  \/ ExportPhrase

SpecText == InitText /\ [][NextText]_vars

\* =================================================================== claims
\* the one-character records of the input and the data of the last of each
InlineLexemes ==
  {rawData[i].kanji : i \in {j \in 1..Len(rawData) : Len(rawData[j].kanji) = 1}}

LastInline(k) ==
  LET at == CHOOSE i \in 1..Len(rawData) :
              /\ rawData[i].kanji = k
              /\ \A j \in 1..Len(rawData) : rawData[j].kanji = k => j <= i
  IN rawData[at]

\* candidates the store did not report as known
NewLexemes ==
  {cons.kanjiSet[i] : i \in {j \in 1..Len(cons.kanjiSet) :
                               ~Contains(cons.existingKanji, cons.kanjiSet[j])}}

EmittedLexemes == {cons.kanji[i].kanji : i \in 1..Len(cons.kanji)}
EnrichedLexemes == {llmKanjiData[i].kanji : i \in 1..Len(llmKanjiData)}

Consolidated == Contains(events, "consolidated")

\* rows the run added to the two card tables
WrittenPhrases == SubSeq(store.phrases, Len(store0.phrases) + 1, Len(store.phrases))
WrittenKanji == SubSeq(store.kanji, Len(store0.kanji) + 1, Len(store.kanji))

\* C1: after steps 1 and 2 of consolidate every record with a kanji of two or
\* more characters is a phrase, in input order, and is not in the kanji map;
\* every record with a kanji of exactly one character is a candidate with its
\* inline data and is not a phrase; nothing else is in either bucket.
C1_ClassificationTotalDisjoint ==
  pc = "lookup" =>
    /\ cons.phrases = SelectSeq(rawData, LAMBDA r : Len(r.kanji) >= 2)
    /\ DOMAIN cons.kanjiData = InlineLexemes
    /\ \A k \in InlineLexemes :
         /\ Contains(cons.kanjiSet, k)
         /\ cons.kanjiData[k].meaning = LastInline(k).englishMeaning
         /\ cons.kanjiData[k].kana = LastInline(k).phoneticKana
         /\ cons.kanjiData[k].romaji = LastInline(k).phoneticRomaji
    /\ \A i \in 1..Len(cons.phrases) : cons.phrases[i].kanji \notin InlineLexemes

C1_Witness ==
  /\ pc = "lookup"
  /\ Len(rawData) = 2
  /\ Len(cons.phrases) = 1
  /\ Cardinality(DOMAIN cons.kanjiData) = 1

\* C2: no kanji returned by consolidate is one the store reported as existing,
\* or has a row in the catalogue the run started from; each is a candidate.
C2_NoKnownKanjiEmitted ==
  Consolidated =>
    \A i \in 1..Len(cons.kanji) :
      /\ ~Contains(cons.existingKanji, cons.kanji[i].kanji)
      /\ ~\E j \in 1..Len(store0.kanji) : store0.kanji[j].kanji = cons.kanji[i].kanji
      /\ Contains(cons.kanjiSet, cons.kanji[i].kanji)

C2_Witness ==
  /\ Consolidated
  /\ Len(cons.existingKanji) > 0
  /\ Len(cons.kanji) > 0

\* C3: a new kanji is in the output exactly when a one-character record of
\* the input or an entry of the lookup answer supplied data for it; a kanji
\* without data is left out, and no row is written for it.
C3_EmittedIffDataSupplied ==
  Consolidated =>
    /\ \A k \in NewLexemes :
         (k \in EmittedLexemes) <=> (k \in InlineLexemes \cup EnrichedLexemes)
    /\ \A i \in 1..Len(WrittenKanji) :
         WrittenKanji[i].kanji \in InlineLexemes \cup EnrichedLexemes

C3_Witness ==
  /\ pc = "returned"
  /\ \E k \in NewLexemes : k \notin EmittedLexemes
  /\ \E k \in NewLexemes : k \in EmittedLexemes
  /\ Len(WrittenKanji) > 0

\* C4 (as claimed): an emitted kanji that has a one-character record in the
\* input carries the data of that record, whatever the lookup answered.
C4_InlineDataNeverOverwritten ==
  Consolidated =>
    \A i \in 1..Len(cons.kanji) :
      cons.kanji[i].kanji \in InlineLexemes =>
        cons.kanji[i].englishMeaning = LastInline(cons.kanji[i].kanji).englishMeaning

\* C5: a failed lookup raises nothing: the phrases are those of step 1, no
\* kanji that was waiting for the lookup is returned, the kanji with inline
\* data are returned with it, and the run goes on to its store writes.
C5_LookupFailureIsAbsorbed ==
  enrich = "failed" =>
    /\ cons.phrases = SelectSeq(rawData, LAMBDA r : Len(r.kanji) >= 2)
    /\ \A i \in 1..Len(cons.kanjiNeedingLookup) :
         cons.kanjiNeedingLookup[i] \notin EmittedLexemes
    /\ \A k \in NewLexemes \cap InlineLexemes :
         \E i \in 1..Len(cons.kanji) :
           /\ cons.kanji[i].kanji = k
           /\ cons.kanji[i].englishMeaning = LastInline(k).englishMeaning
    /\ pc \in {"createPhrases", "createKanjis", "getQueryWithCards",
               "saveKanji", "fetch", "returned", "raised"}
    /\ pc = "raised" => err = "store"
    /\ pc = "returned" =>
         \A i \in 1..Len(cons.kanji) :
           \E j \in 1..Len(WrittenKanji) :
             /\ WrittenKanji[j].kanji = cons.kanji[i].kanji
             /\ WrittenKanji[j].queryId = queryId

C5_Witness ==
  /\ enrich = "failed"
  /\ pc = "returned"
  /\ Len(cons.kanjiNeedingLookup) > 0
  /\ Len(cons.kanji) > 0
  /\ Len(cons.phrases) > 0

\* the new kanji without a one-character record, in first-seen order
ExpectedLookup ==
  SelectSeq(cons.kanjiSet,
            LAMBDA k : ~Contains(cons.existingKanji, k) /\ k \notin InlineLexemes)

\* C6: consolidate calls generateKanjiMeanings not at all when no new kanji
\* lacks inline data and once otherwise, with exactly the new kanji that lack
\* inline data; a failed call is not repeated.
C6_LookupCalledAtMostOnce ==
  /\ Len(llmCalls) <= 1
  /\ (Consolidated /\ ~UsesService) =>
       IF ExpectedLookup = <<>> THEN llmCalls = <<>>
       ELSE llmCalls = <<ExpectedLookup>>
  /\ enrich = "failed" => Len(llmCalls) = 1

C6_Witness ==
  /\ pc = "returned"
  /\ enrich = "failed"
  /\ llmCalls = << <<Kuchi>> >>
  /\ InlineLexemes = {De}

\* the text of the response has no JSON array in it, or one JSON.parse rejects
Unparseable == response.kind = "text" /\ response.array \in {"none", "invalid"}

\* C7: when the response cannot be parsed the run raises, the store is as it
\* was when the run began, and neither consolidation nor the lookup has run.
C7_ParseFailureWritesNothing ==
  (Unparseable /\ pc \notin {"idle", "generatePhrases"}) =>
    /\ pc = "raised"
    /\ err = "generatePhrases"
    /\ store = store0
    /\ events = <<"generatePhrases">>
    /\ llmCalls = <<>>
    /\ cons = NoCons

C7_Witness ==
  /\ Unparseable
  /\ pc = "raised"
  /\ UsesCli

\* C8 (as claimed): every phrase row a run wrote has a kanji of two or more
\* characters.
C8_WrittenPhrasesAreMultiCharacter ==
  \A i \in 1..Len(WrittenPhrases) : Len(WrittenPhrases[i].kanji) >= 2

\* C9 (as claimed): every write of a phrase or kanji row comes after the read
\* of the existing kanji and after consolidate (with its lookup) has finished,
\* and the read-back comes last.
C9_WritesFollowConsolidation ==
  \A i \in 1..Len(events) :
    /\ events[i] \in {"writePhrase", "writeKanji"} =>
         /\ \E j \in 1..(i - 1) : events[j] = "getExistingKanji"
         /\ \E j \in 1..(i - 1) : events[j] = "consolidated"
    /\ events[i] = "readBack" => i = Len(events)

\* C10: what generateCards returns is what the store holds under the query id
\* at the read-back, rows of earlier calls included; for a missing query id
\* it is two empty lists.
C10_ReturnsStoredCards ==
  (pc = "returned" /\ ~UsesCli) =>
    LET ps == SelectSeq(store.phrases, LAMBDA row : row.queryId = queryId)
        ks == SelectSeq(store.kanji, LAMBDA row : row.queryId = queryId)
    IN /\ Len(result.phrases) = Len(ps)
       /\ \A i \in 1..Len(ps) :
            /\ result.phrases[i].kanji = ps[i].kanji
            /\ result.phrases[i].englishMeaning = ps[i].englishMeaning
            /\ result.phrases[i].kanjiBreakdown = ps[i].kanjiBreakdown
       /\ Len(result.kanji) = Len(ks)
       /\ \A i \in 1..Len(ks) :
            /\ result.kanji[i].kanji = ks[i].kanji
            /\ result.kanji[i].englishMeaning = ks[i].englishMeaning
       /\ queryId \notin store.queries => result = NoResult
       /\ \A i \in 1..Len(store0.phrases) :
            store0.phrases[i].queryId = queryId =>
              \E j \in 1..Len(result.phrases) :
                result.phrases[j].englishMeaning = store0.phrases[i].englishMeaning

C10_Witness ==
  /\ pc = "returned"
  /\ entry = "generateCards"
  /\ Len(store0.phrases) > 0
  /\ Len(result.phrases) > Len(cons.phrases)
  /\ Len(cons.phrases) > 0
  /\ Len(result.kanji) > Len(cons.kanji)

\* the run called generatePhrases and the call has ended
Generated == Contains(events, "generatePhrases")
Classified == Contains(events, "getExistingKanji")

\* an element with every key of a phrase and a non-empty value for each
AllFieldsNonEmpty(e) ==
  /\ PhraseFields \subseteq DOMAIN e
  /\ e.englishMeaning # "" /\ e.kanji # <<>> /\ e.phoneticKana # ""
  /\ e.phoneticRomaji # "" /\ e.kanjiBreakdown # <<>>

\* a one-character element with the four descriptive fields and no breakdown
OneCharacterNoBreakdown(e) ==
  /\ DOMAIN e = PhraseFields \ {"kanjiBreakdown"}
  /\ Len(e.kanji) = 1
  /\ e.englishMeaning # "" /\ e.phoneticKana # "" /\ e.phoneticRomaji # ""

MultiCharacter(e) == AllFieldsNonEmpty(e) /\ Len(e.kanji) >= 2

\* a JSON array of multi-character elements with a breakdown and of
\* one-character elements without one, at least one of each
MixedResponse ==
  /\ response.array = "json"
  /\ \A i \in 1..Len(response.elements) :
       MultiCharacter(response.elements[i])
         \/ OneCharacterNoBreakdown(response.elements[i])
  /\ \E i \in 1..Len(response.elements) : MultiCharacter(response.elements[i])
  /\ \E i \in 1..Len(response.elements) :
       OneCharacterNoBreakdown(response.elements[i])

\* C14 (as claimed): a response mixing multi-character elements that have a
\* breakdown with one-character elements that have none parses; and, with no
\* kanji known to the store and no lookup data, consolidation returns each
\* multi-character element as a phrase and each one-character element as a
\* kanji with its inline data, and no kanji that occurs only in a breakdown.
C14_MixedArrayConsolidates ==
  (Generated /\ MixedResponse) =>
    /\ err # "generatePhrases"
    /\ (Consolidated /\ store0.kanji = <<>> /\ llmKanjiData = <<>>) =>
         /\ Len(cons.phrases) =
              Cardinality({i \in 1..Len(response.elements) :
                             MultiCharacter(response.elements[i])})
         /\ \A i \in 1..Len(cons.phrases) :
              \E j \in 1..Len(response.elements) :
                /\ MultiCharacter(response.elements[j])
                /\ cons.phrases[i].kanji = response.elements[j].kanji
         /\ EmittedLexemes =
              {response.elements[i].kanji :
                 i \in {j \in 1..Len(response.elements) :
                          OneCharacterNoBreakdown(response.elements[j])}}

\* C15: an array whose elements all have a non-empty value for every field
\* is accepted by the parser whatever the length of the kanji, and its
\* one-character elements are classified as individual kanji, not as phrases.
C15_OneCharacterElementAccepted ==
  (/\ Generated
   /\ response.array = "json"
   /\ \A i \in 1..Len(response.elements) : AllFieldsNonEmpty(response.elements[i]))
    => /\ err # "generatePhrases"
       /\ rawData = response.elements
       /\ Classified =>
            \A i \in 1..Len(rawData) :
              Len(rawData[i].kanji) = 1 =>
                /\ rawData[i].kanji \in DOMAIN cons.kanjiData
                /\ Contains(cons.kanjiSet, rawData[i].kanji)
                /\ \A j \in 1..Len(cons.phrases) :
                     cons.phrases[j].kanji # rawData[i].kanji

C15_Witness ==
  /\ Generated
  /\ Classified
  /\ response.array = "json"
  /\ \E i \in 1..Len(response.elements) :
       /\ Len(response.elements[i].kanji) = 1
       /\ response.elements[i].kanji \in DOMAIN cons.kanjiData
  /\ \E i \in 1..Len(cons.phrases) : Len(cons.phrases[i].kanji) = 2

\* some element of the parsed array fails field validation
SomeElementInvalid ==
  /\ response.array = "json"
  /\ \E i \in 1..Len(response.elements) : ~AllFieldsNonEmpty(response.elements[i])

RecordsOfRows(rows) ==
  [i \in 1..Len(rows) |->
     [englishMeaning |-> rows[i].englishMeaning, kanji |-> rows[i].kanji,
      phoneticKana |-> rows[i].phoneticKana, phoneticRomaji |-> "",
      kanjiBreakdown |-> rows[i].kanjiBreakdown]]

\* C17 (as claimed): a text with no JSON array and a pipe-delimited table with
\* data rows parses into one record per data row; a text with no array and
\* no data row fails to parse.
C17_TableFallbackParses ==
  (Generated /\ response.kind = "text" /\ response.array = "none") =>
    IF response.rows # <<>>
    THEN err # "generatePhrases" /\ rawData = RecordsOfRows(response.rows)
    ELSE pc = "raised" /\ err = "generatePhrases"

\* one-character records of the input that share the kanji k
InlineCount(k) ==
  Cardinality({i \in 1..Len(rawData) : rawData[i].kanji = k})

\* C20 (as claimed): consolidate returns no two kanji entries with the same
\* kanji; and a kanji that several one-character records of the input share
\* is returned with the data of the last of them.
C20_AtomicUnitsUniqueLastWins ==
  Consolidated =>
    /\ \A i, j \in 1..Len(cons.kanji) :
         cons.kanji[i].kanji = cons.kanji[j].kanji => i = j
    /\ \A i \in 1..Len(cons.kanji) :
         (Len(cons.kanji[i].kanji) = 1 /\ InlineCount(cons.kanji[i].kanji) >= 2) =>
           /\ cons.kanji[i].englishMeaning =
                LastInline(cons.kanji[i].kanji).englishMeaning
           /\ cons.kanji[i].phoneticKana =
                LastInline(cons.kanji[i].kanji).phoneticKana
           /\ cons.kanji[i].phoneticRomaji =
                LastInline(cons.kanji[i].kanji).phoneticRomaji

\* C11 (as claimed): a text cut into pieces, each sent as a chunk
\* 0:"<piece as a JSON string body>", is returned by cleanStreamingResponse
\* exactly, for every text over the alphabet and every way of cutting it.
C11_ChunkedTextRoundTrips ==
  (tpc = "cleaned" /\ source = "chunked") => cleaned = payload

\* C12 (as claimed): when the last chunk has no closing quote, the result is
\* exactly the text of the complete chunks before it, and nothing of the
\* truncated chunk, also when the truncated chunk holds escaped quotes.
\* Stated for complete chunks without a backslash, whose decoding is not in
\* question.
C12_TruncatedChunkDropped ==
  (/\ tpc = "cleaned"
   /\ source = "truncated"
   /\ \A i \in 1..Len(payload) : payload[i] # 92)
    => cleaned = payload

\* C13: an input that does not hold the chunk prefix is returned as it is,
\* with its \", \n and \t sequences untouched, and cleaning the result again
\* returns it again.
C13_UnchunkedInputUnchanged ==
  (tpc = "cleaned" /\ ~\E i \in 1..(Len(text) - 2) :
                         text[i] = 48 /\ text[i + 1] = 58 /\ text[i + 2] = 34)
    => /\ cleaned = text
       /\ cleanStreamingResponse(cleaned) = cleaned

C13_Witness ==
  /\ tpc = "cleaned"
  /\ source = "plain"
  /\ text = <<92, 110, 34>>
  /\ cleaned = text

\* a character in one of the ideograph ranges
IsIdeograph(c) ==
  \/ c \in 19968..40879
  \/ c \in 13312..19903
  \/ c \in 131072..173791
  \/ c \in 173824..177983
  \/ c \in 177984..178207
  \/ c \in 178208..183983

\* the leading ideograph run of a segment
RECURSIVE IdeographRun(_)
IdeographRun(segment) ==
  IF segment # <<>> /\ IsIdeograph(Head(segment))
  THEN << <<Head(segment)>> >> \o IdeographRun(Tail(segment)) ELSE <<>>

RECURSIVE RunsOf(_)
RunsOf(segments) ==
  IF segments = <<>> THEN <<>>
  ELSE IdeographRun(Trim(Head(segments))) \o RunsOf(Tail(segments))

\* the first occurrences of a list, in order
RECURSIVE FirstOccurrences(_, _)
FirstOccurrences(list, seen) ==
  IF list = <<>> THEN <<>>
  ELSE IF Head(list) \in seen THEN FirstOccurrences(Tail(list), seen)
  ELSE <<Head(list)>> \o FirstOccurrences(Tail(list), seen \cup {Head(list)})

\* C18 (as claimed): the extraction is, in order and without repeats, the
\* characters of the leading ideograph run of each trimmed segment of the
\* breakdown, the segments being separated by '/', ',' and ';'.
C18_ExtractsLeadingIdeographRuns ==
  (tpc = "extracted" /\ source = "breakdown") =>
    extracted = FirstOccurrences(RunsOf(Split(text)), {})

\* the first character of a segment: two code units when they are a surrogate
\* pair, else one
LeadingCharacter(segment) ==
  IF /\ Len(segment) >= 2
     /\ segment[1] \in 55296..56319
     /\ segment[2] \in 56320..57343
  THEN SubSeq(segment, 1, 2)
  ELSE SubSeq(segment, 1, 1)

CodePointOf(character) ==
  IF Len(character) = 2
  THEN 65536 + (character[1] - 55296) * 1024 + (character[2] - 56320)
  ELSE character[1]

\* the trimmed segments of the breakdown that begin with an ideograph
IdeographLed ==
  {Trim(Split(text)[i]) : i \in
     {j \in 1..Len(Split(text)) :
        /\ Trim(Split(text)[j]) # <<>>
        /\ IsIdeograph(CodePointOf(LeadingCharacter(Trim(Split(text)[j]))))}}

\* C24 (as claimed): a segment that begins with a character of one of the
\* ideograph ranges (U+4E00-9FAF, U+3400-4DBF, U+20000-2CEAF) yields that
\* character in the extraction.
C24_EveryIdeographRangeExtracted ==
  (tpc = "extracted" /\ source = "breakdown") =>
    \A segment \in IdeographLed :
      \E k \in 1..Len(extracted) : extracted[k] = LeadingCharacter(segment)

\* text holds "kata only" at position i, each letter in either case
MarkerAt(i) ==
  /\ i + 8 <= Len(text)
  /\ text[i] \in {107, 75} /\ text[i + 1] \in {97, 65}
  /\ text[i + 2] \in {116, 84} /\ text[i + 3] \in {97, 65}
  /\ text[i + 4] = 32
  /\ text[i + 5] \in {111, 79} /\ text[i + 6] \in {110, 78}
  /\ text[i + 7] \in {108, 76} /\ text[i + 8] \in {121, 89}

\* C19: a breakdown that holds "kata only" anywhere, in any letter case,
\* yields no kanji, also when a segment of it starts with a kanji.
C19_KataOnlyYieldsNothing ==
  (tpc = "extracted" /\ \E i \in 1..Len(text) : MarkerAt(i)) => extracted = <<>>

C19_Witness ==
  /\ tpc = "extracted"
  /\ source = "kataOnly"
  /\ text[1] = 20986
  /\ MarkerAt(2)
  /\ text[2] = 75 /\ text[3] = 97 /\ text[7] = 79
  /\ extracted = <<>>

\* the candidates of the input, in first-seen order: the kanji extracted from
\* the breakdown of each phrase and the kanji of each one-character record
RECURSIVE CandidatesOf(_)
CandidatesOf(records) ==
  IF records = <<>> THEN <<>>
  ELSE (IF Len(Head(records).kanji) >= 2
        THEN extractKanjiFromBreakdown(Head(records).kanjiBreakdown)
        ELSE IF Len(Head(records).kanji) = 1 THEN <<Head(records).kanji>>
        ELSE <<>>)
       \o CandidatesOf(Tail(records))

ExpectedCandidates == FirstOccurrences(CandidatesOf(rawData), {})

\* C25: consolidate asks the store for the existing kanji exactly once, also
\* when it has no candidate, and with the candidates of the input, each once,
\* in first-seen order.
C25_StoreQueriedOnceWithCandidates ==
  /\ Len(cons.storeQueries) = IF Classified THEN 1 ELSE 0
  /\ pc = "lookup" => cons.storeQueries[1] = ExpectedCandidates

C25_Witness ==
  /\ Consolidated
  /\ Len(rawData) = 3
  /\ Len(CandidatesOf(rawData)) = 4
  /\ cons.storeQueries = << <<De, Kuchi>> >>

\* kanji the catalogue held when the run began
KnownLexemes == {store0.kanji[i].kanji : i \in 1..Len(store0.kanji)}
CandidateLexemes ==
  LET candidates == ExpectedCandidates
  IN {candidates[i] : i \in 1..Len(candidates)}

\* consolidate has just returned
JustConsolidated == events # <<>> /\ events[Len(events)] = "consolidated"

\* C26: whatever entries the lookup answers with, every kanji consolidate
\* returns is a candidate of the input that the catalogue did not hold.
C26_LookupAddsNoKanji ==
  (JustConsolidated /\ enrich = "ok") =>
    EmittedLexemes \subseteq (CandidateLexemes \ KnownLexemes)

C26_Witness ==
  /\ JustConsolidated
  /\ enrich = "ok"
  /\ KnownLexemes # {}
  /\ \E i \in 1..Len(llmKanjiData) : llmKanjiData[i].kanji \notin CandidateLexemes
  /\ \E i \in 1..Len(llmKanjiData) :
       Contains(cons.kanjiNeedingLookup, llmKanjiData[i].kanji)
  /\ Len(cons.kanji) > 0

\* C29 (as claimed): when a store write of a run fails, no row the run wrote
\* before it is left in the store.
C29_FailedRunLeavesNothing ==
  (pc = "raised" /\ err = "store") =>
    /\ store.queries = store0.queries
    /\ store.phrases = store0.phrases
    /\ store.kanji = store0.kanji

\* the outcome holds, in ascending order of id, one row for each kanji of the
\* rows given: the row of lowest id among those of that kanji
LowestPerKey(rows, outcome) ==
  /\ \A i \in 1..(Len(outcome) - 1) : outcome[i].id < outcome[i + 1].id
  /\ \A i \in 1..Len(outcome) :
       /\ \E j \in 1..Len(rows) : rows[j] = outcome[i]
       /\ \A j \in 1..Len(rows) :
            rows[j].kanji = outcome[i].kanji => outcome[i].id <= rows[j].id
       /\ \A k \in 1..Len(outcome) :
            outcome[k].kanji = outcome[i].kanji => k = i
  /\ \A j \in 1..Len(rows) :
       \E i \in 1..Len(outcome) : outcome[i].kanji = rows[j].kanji

\* C21: of rows with distinct ids, deduplicateByKey with its default selector
\* and the recall command's deduplicatePhrases and deduplicateKanji return one
\* row per key, the one of lowest id, in ascending order of id, every key kept.
C21_DeduplicationKeepsLowestId ==
  tpc = "deduplicated" =>
    /\ LowestPerKey(items, deduped.byKey)
    /\ LowestPerKey(items, deduped.recall)

\* three rows, the first two of one kanji with the later row of lower id, so
\* that the held row is replaced and the order of insertion is not the answer
C21_Witness ==
  /\ tpc = "deduplicated"
  /\ Len(items) = 3
  /\ items[1].kanji = items[2].kanji /\ items[2].id < items[1].id
  /\ items[3].kanji # items[1].kanji /\ items[3].id < items[2].id
  /\ deduped.byKey = <<items[3], items[2]>>
  /\ deduped.recall = deduped.byKey

\* a field with each double quote written twice
RECURSIVE Doubled(_)
Doubled(field) ==
  IF field = <<>> THEN <<>>
  ELSE IF Head(field) = 34 THEN <<34, 34>> \o Doubled(Tail(field))
  ELSE <<Head(field)>> \o Doubled(Tail(field))

\* a reader of comma-separated values: the rows of a text, each a list of
\* fields. Fields end at a comma, rows at a newline; a field that opens with a
\* double quote runs to the closing quote, two quotes inside it standing for one.
\* mode is "plain", "quoted" or "closing" (a quote seen inside a quoted field)
RECURSIVE ReadCsv(_, _, _, _, _, _)
ReadCsv(content, i, mode, field, row, rows) ==
  IF i > Len(content) THEN Append(rows, Append(row, field))
  ELSE IF mode = "quoted"
  THEN IF content[i] = 34
       THEN ReadCsv(content, i + 1, "closing", field, row, rows)
       ELSE ReadCsv(content, i + 1, "quoted", Append(field, content[i]), row, rows)
  ELSE IF content[i] = 34 /\ (mode = "closing" \/ field = <<>>)
  THEN ReadCsv(content, i + 1, "quoted",
               IF mode = "closing" THEN Append(field, 34) ELSE field, row, rows)
  ELSE IF content[i] = 44
  THEN ReadCsv(content, i + 1, "plain", <<>>, Append(row, field), rows)
  ELSE IF content[i] = 10
  THEN ReadCsv(content, i + 1, "plain", <<>>, <<>>, Append(rows, Append(row, field)))
  ELSE ReadCsv(content, i + 1, "plain", Append(field, content[i]), row, rows)

ParseCsv(content) == ReadCsv(content, 1, "plain", <<>>, <<>>, <<>>)

HeadersOf(kind) == IF kind = "kanji.csv" THEN KanjiHeaders ELSE PhraseHeaders

\* the header row as it is written: no header holds a comma, a quote or a
\* newline, so a reader takes it as one row of these headers and begins the
\* next row after its newline
HeaderLine(kind) == JoinWith(HeadersOf(kind), 44) \o <<10>>

\* C23: escapeCsvField returns a field without comma, double quote and newline
\* unchanged and any other field wrapped in double quotes with its quotes
\* doubled; an exported file read back by the quoting rules of CSV yields,
\* after the header row, each card's fields in column order.
C23_CsvFieldsRoundTrip ==
  /\ tpc = "escaped" =>
       csv = IF \E i \in 1..Len(text) : text[i] \in {44, 34, 10}
             THEN <<34>> \o Doubled(text) \o <<34>>
             ELSE text
  /\ tpc = "exported" =>
       /\ Len(csv) > Len(HeaderLine(source))
       /\ SubSeq(csv, 1, Len(HeaderLine(source))) = HeaderLine(source)
       /\ ParseCsv(SubSeq(csv, Len(HeaderLine(source)) + 1, Len(csv))) = cards

\* two phrase cards with a quote in one field and a newline in others
C23_Witness ==
  /\ tpc = "exported" /\ source = "phrases.csv"
  /\ cards[1][1] = <<34>> /\ cards[1][2] = <<10>> /\ cards[1][5] = <<34, 10>>
  /\ cards[2][4] = <<34, 10>>
  /\ csv = HeaderLine(source) \o <<34, 34, 34, 34, 44, 34, 10, 34, 44, 34, 10, 34, 44,
                                   34, 34, 34, 34, 44, 34, 34, 34, 10, 34, 10,
                                   34, 10, 34, 44, 34, 34, 34, 34, 44,
                                   34, 34, 34, 34, 44, 34, 34, 34, 10, 34, 44,
                                   34, 10, 34>>

\* the lexemes of the Kanji rows of a query
LexemesOfQuery(db, id) ==
  {db.kanji[i].kanji : i \in {j \in 1..Len(db.kanji) : db.kanji[j].queryId = id}}

\* C22: after deleteQuery(id) has succeeded, getQueryWithCards(id) returns
\* null, no phrase and no kanji row has the queryId id, the queries and rows
\* of every other query are as before, and getExistingKanji no longer reports
\* the kanji whose rows were removed.
C22_DeleteQueryCascades ==
  pc = "deleted" =>
    /\ QueryWithCards(store, queryId) = <<>>
    /\ PhrasesOfQuery(store, queryId) = <<>>
    /\ KanjiOfQuery(store, queryId) = <<>>
    /\ store.queries = store0.queries \ {queryId}
    /\ \A q \in 1..store0.lastId :
         q # queryId => /\ QueryWithCards(store, q) = QueryWithCards(store0, q)
                        /\ PhrasesOfQuery(store, q) = PhrasesOfQuery(store0, q)
                        /\ KanjiOfQuery(store, q) = KanjiOfQuery(store0, q)
    /\ \A k \in LexemesOfQuery(store0, queryId) :
         /\ getExistingKanji(store, <<k>>) = <<>>
         /\ ~Contains(getExistingKanji(store, KanjiColumn(store0.kanji)), k)

\* a query with a phrase and a kanji is deleted while another query keeps its
\* kanji
C22_Witness ==
  /\ pc = "deleted"
  /\ PhrasesOfQuery(store0, queryId) # <<>>
  /\ LexemesOfQuery(store0, queryId) # {}
  /\ store.kanji # <<>>
  /\ store.phrases # <<>>

\* C27: in a series of runs, one after the other, no run attempts to insert a
\* kanji the catalogue already has, the catalogue has at most one row per
\* kanji, and no run fails on the uniqueness of Kanji.kanji.
C27_SequentialRunsKeepKanjiUnique ==
  /\ \A i, j \in 1..Len(store.kanji) :
       store.kanji[i].kanji = store.kanji[j].kanji => i = j
  /\ (pc = "saveKanji" /\ idx <= Len(cons.kanji)) =>
       cons.kanji[idx].kanji \notin StoredLexemes
  /\ ~(pc = "raised" /\ events # <<>> /\ events[Len(events)] = "writeKanji")

\* a later run that found a kanji of an earlier run in the catalogue and added
\* another one
C27_Witness ==
  /\ runNo > 1
  /\ pc = "returned"
  /\ cons.existingKanji # <<>>
  /\ Len(WrittenKanji) > 0
  /\ Len(store0.kanji) > 0

\* kanji the run asked the gateway about and got no data for
Unsupplied ==
  {cons.kanjiNeedingLookup[i] : i \in
     {j \in 1..Len(cons.kanjiNeedingLookup) :
        enrich # "ok" \/ cons.kanjiNeedingLookup[j] \notin EnrichedLexemes}}

\* C30: a kanji for which a run had neither inline data nor data from the
\* gateway is not added to the catalogue by that run; in a later run whose
\* input yields it again it is new again and, unless that run has inline data
\* for it, it is in the one request made to the gateway.
C30_DroppedKanjiIsNewAgain ==
  Consolidated =>
    /\ Unsupplied \cap StoredLexemes = {}
    /\ \A k \in pending :
         Contains(cons.kanjiSet, k) =>
           /\ Contains(cons.newKanji, k)
           /\ k \notin InlineLexemes =>
                /\ Contains(cons.kanjiNeedingLookup, k)
                /\ llmCalls = <<cons.kanjiNeedingLookup>>

\* a kanji dropped by an earlier run is asked about again, and this time the
\* run gets its data and stores it
C30_Witness ==
  /\ runNo > 1
  /\ pc = "returned"
  /\ \E k \in pending :
       /\ Contains(cons.kanjiNeedingLookup, k)
       /\ k \in EnrichedLexemes
       /\ k \in StoredLexemes

\* both runs have ended
BothEnded ==
  /\ pc \in {"returned", "raised", "warned"}
  /\ proc.pc \in {"returned", "raised", "warned"}

\* kanji that both runs found new: neither read of the known kanji saw the
\* other run's row
FoundNewByBoth ==
  {k \in EmittedLexemes :
     \E i \in 1..Len(proc.cons.kanji) : proc.cons.kanji[i].kanji = k}

\* C28 (as claimed): when two overlapping runs both find the same new kanji,
\* the catalogue ends with exactly one row for it and both runs complete
\* their writes without error.
C28_OverlappingRunsBothComplete ==
  (BothEnded /\ FoundNewByBoth # {}) =>
    /\ \A k \in FoundNewByBoth :
         Cardinality({i \in 1..Len(store.kanji) : store.kanji[i].kanji = k}) = 1
    /\ err = "none"
    /\ proc.err = "none"

====
